---- MODULE Spec2Model ----
(***************************************************************************)
(* hmon: a terminal resource monitor.  This module models the CPU usage    *)
(* delta sampler, the bounded history store, the GPU fusion, the column    *)
(* layout split and the main poll loop, and states the properties of the   *)
(* specification against them.                                             *)
(*                                                                         *)
(* Every C++ double is modelled as an exact rational <<n, d>> in lowest    *)
(* terms with d > 0; a division by zero yields <<s, 0>> (inf / nan).       *)
(* Every std::optional<T> is modelled as a sequence: <<>> for nullopt and  *)
(* <<v>> for a present value v.                                            *)
(***************************************************************************)
EXTENDS Integers, Sequences, FiniteSets, TLC

VARIABLES
  state,      \* collectCpuUsagePercent: static CpuUsageState state
  cpu_call,   \* the last call of collectCpuUsagePercent: what it read and returned
  probe,      \* what the two GPU probes and the sensors fallback find on this machine
  fusion,     \* collectGpus: its position and, once it returned, its locals and result
  history,    \* MetricsHistory: the six series
  max_points, \* the capacity handed to updateHistory
  hist_call,  \* the last call of updateHistory: its arguments and the history it found
  pushed,     \* every value pushed onto each series since the start, oldest first
  split,      \* splitColumnHeights: its arguments and, once it returned, *top_h and *bottom_h
  pc,         \* main: "start" before the first poll, "getch" in the loop, "done" after endwin
  ch,         \* main: the key the last getch returned
  polls,      \* main: poll cycles run so far
  snapshot,   \* main: the Snapshot of the last poll
  feed,       \* the kernel's aggregate CPU counters: their start and their increase per poll
  term,       \* the terminal size getmaxyx reports
  frame,      \* the last call of renderSnapshot: the size it saw, its layout and its windows
  busy_state, \* computeRootDiskBusyPercent: its static state
  canvas,     \* a BrailleCanvas and the drawing operation applied to it
  thermal,       \* the thermal sensors of the machine and the temperature read from them
  pick,       \* a GPU list and the indices the two selection functions return for it
  typed,      \* the keys typed and not yet read by getch, and the key read last
  sensors_call \* collectSensorsFallbackMetrics: its static cache, the clock and its last call

vars == <<state, cpu_call, probe, fusion, history, max_points, hist_call, pushed, split,
          pc, ch, polls, snapshot, feed, term, frame, busy_state, canvas, thermal, pick, typed,
          sensors_call>>
mainVars == <<pc, ch, polls, snapshot, feed, term, frame, busy_state, typed>>
samplerVars == <<state, cpu_call>>
gpuVars == <<probe, fusion>>
historyVars == <<history, max_points, hist_call, pushed>>
layoutVars == <<split>>
brailleVars == <<canvas>>
thermalVars == <<thermal>>
pickVars == <<pick>>
sensorsVars == <<sensors_call>>
pureVars == <<canvas, thermal, pick, sensors_call>>

(***************************************************************************)
(* Bounds of the model.                                                    *)
(***************************************************************************)
MaxTick == 2        \* each tick counter of a bounded /proc/stat line is in 0..MaxTick
MaxTool == 2        \* rows reported by the external GPU tool
MaxSysfs == 2       \* display cards found under /sys/class/drm
MaxPoints == 2      \* largest history capacity tried
MaxCalls == 4       \* calls of updateHistory in a run
MaxTotalH == 22     \* largest column height handed to splitColumnHeights
MaxGap == 2         \* largest gap handed to splitColumnHeights
MaxPref == 10       \* largest preferred panel height
MaxPolls == 5       \* poll cycles in a run of main
MaxStart == 0       \* largest initial value of a fed tick counter
MaxStep == 2        \* largest increase of a fed tick counter per poll
MaxSmallRaw == 1001 \* every raw temperature reading of at most this magnitude is tried
MaxDegrees == 151   \* millidegree readings are tried around every whole degree up to this
MaxZones == 2       \* thermal zones of a machine
MaxChips == 1       \* hwmon chips of a machine
MaxGpus == 3        \* GPUs in a list handed to the selection functions
MaxCanvasW == 3     \* widest canvas, in cells
MaxCanvasH == 3     \* highest canvas, in cells
MaxSamples == 3     \* longest series plotted
MinRows == 16       \* smallest terminal height tried
MaxRows == 30       \* largest terminal height tried
MinCols == 78       \* smallest terminal width tried
MaxTyped == 1       \* keys that wait in the input queue
MaxLines == 3       \* lines in an output of the sensors tool
MaxSensorCalls == 4 \* calls of collectSensorsFallbackMetrics in a timed run
MaxCols == 82       \* largest terminal width tried

(***************************************************************************)
(* std::optional                                                           *)
(***************************************************************************)
None == <<>>
Some(v) == <<v>>
HasValue(o) == o # <<>>
ValueOf(o) == o[1]

(***************************************************************************)
(* double arithmetic, exact                                                *)
(***************************************************************************)
Abs(x) == IF x < 0 THEN -x ELSE x
Sign(x) == IF x < 0 THEN -1 ELSE IF x > 0 THEN 1 ELSE 0

RECURSIVE GCD(_, _)
GCD(a, b) == IF b = 0 THEN a ELSE GCD(b, a % b)

\* n / d as a double
Rat(n, d) ==
  IF d = 0 THEN <<Sign(n), 0>>
  ELSE LET g == GCD(Abs(n), Abs(d))
           s == IF d < 0 THEN -1 ELSE 1
       IN <<(s * n) \div g, (s * d) \div g>>

Num(n) == <<n, 1>>
IsFinite(a) == a[2] > 0
RatLess(a, b) == a[1] * b[2] < b[1] * a[2]
RatLeq(a, b) == a[1] * b[2] <= b[1] * a[2]
RatMax(a, b) == IF RatLess(a, b) THEN b ELSE a
RatMin(a, b) == IF RatLess(b, a) THEN b ELSE a

(***************************************************************************)
(* CPU usage delta sampler: collectCpuUsagePercent                         *)
(***************************************************************************)
\* the first line of /proc/stat as the stream extraction leaves it
StatLine(tag, u, n, s, i, w, q, sq, st) ==
  [open |-> TRUE, cpu_tag |-> tag, user |-> u, nice |-> n, system |-> s, idle |-> i,
   iowait |-> w, irq |-> q, softirq |-> sq, steal |-> st]

\* /proc/stat cannot be opened
NoStat == [open |-> FALSE, cpu_tag |-> "", user |-> 0, nice |-> 0, system |-> 0, idle |-> 0,
           iowait |-> 0, irq |-> 0, softirq |-> 0, steal |-> 0]

\* the readings of the documented example: (idle=100,total=1000), (idle=150,total=1100)
ExampleLines == {StatLine("cpu", 900, 0, 0, 100, 0, 0, 0, 0), StatLine("cpu", 950, 0, 0, 150, 0, 0, 0, 0)}

CpuLines ==
  {StatLine("cpu", u, 0, s, i, w, 0, 0, 0) : u \in 0..MaxTick, s \in 0..1, i \in 0..MaxTick, w \in 0..1}
    \cup ExampleLines

StatInputs == CpuLines \cup {NoStat, StatLine("intr", 1, 0, 0, 1, 0, 0, 0, 0)}

IdleTicks(line) == line.idle + line.iowait
TotalTicks(line) ==
  line.user + line.nice + line.system + line.idle + line.iowait + line.irq + line.softirq + line.steal

CpuUsageState0 == [prev_idle |-> 0, prev_total |-> 0, initialized |-> FALSE]

\* the line was read: the stream opened and its first token is the aggregate tag
ReadsCpuLine(line) == line.open /\ line.cpu_tag = "cpu"

\* variant: the idle counter is not compared with the baseline
NeedsBaseline_TotalOnly(st, idle_ticks, total_ticks) ==
  ~st.initialized \/ total_ticks < st.prev_total

\* the condition under which the sampler only stores a new baseline
NeedsBaseline(st, idle_ticks, total_ticks) ==
  ~st.initialized \/ total_ticks < st.prev_total \/ idle_ticks < st.prev_idle

\* variant: the idle share instead of the busy share
UsageOfDeltas_IdleShare(idle_delta, total_delta) ==
  RatMax(Num(0), RatMin(Num(100), Rat(100 * idle_delta, total_delta)))

\* 100.0 * (1.0 - idle_delta / total_delta), limited to [0, 100]
UsageOfDeltas(idle_delta, total_delta) ==
  LET usage == Rat(100 * (total_delta - idle_delta), total_delta)
  IN RatMax(Num(0), RatMin(Num(100), usage))

\* the state the sampler leaves behind once the line was read
StoreBaseline(idle_ticks, total_ticks) ==
  [prev_idle |-> idle_ticks, prev_total |-> total_ticks, initialized |-> TRUE]

\* variant: a regressed reading is dropped without becoming the baseline
collectCpuUsagePercent_KeepsBaseline(st, line) ==
  IF ~ReadsCpuLine(line) THEN [state |-> st, result |-> None]
  ELSE LET idle_ticks == IdleTicks(line)
           total_ticks == TotalTicks(line)
       IN IF NeedsBaseline(st, idle_ticks, total_ticks)
          THEN [state |-> IF st.initialized THEN st ELSE StoreBaseline(idle_ticks, total_ticks),
                result |-> None]
          ELSE LET total_delta == total_ticks - st.prev_total
                   idle_delta == idle_ticks - st.prev_idle
               IN [state |-> StoreBaseline(idle_ticks, total_ticks),
                   result |-> IF total_delta = 0 THEN None
                              ELSE Some(UsageOfDeltas(idle_delta, total_delta))]

\* one call: the new static state and the returned optional
collectCpuUsagePercent(st, line) ==
  IF ~ReadsCpuLine(line) THEN [state |-> st, result |-> None]
  ELSE LET idle_ticks == IdleTicks(line)
           total_ticks == TotalTicks(line)
       IN IF NeedsBaseline(st, idle_ticks, total_ticks)
          THEN [state |-> StoreBaseline(idle_ticks, total_ticks), result |-> None]
          ELSE LET total_delta == total_ticks - st.prev_total
                   idle_delta == idle_ticks - st.prev_idle
               IN [state |-> StoreBaseline(idle_ticks, total_ticks),
                   result |-> IF total_delta = 0 THEN None
                              ELSE Some(UsageOfDeltas(idle_delta, total_delta))]

\* the call saw a counter below the stored baseline
SeesRegression(st, line) ==
  ReadsCpuLine(line) /\ st.initialized
  /\ (IdleTicks(line) < st.prev_idle \/ TotalTicks(line) < st.prev_total)

\* what is remembered of a call: the line it was given, the static state it found,
\* the counters read by the latest earlier call that read the line, whether that call
\* saw a regression, and the result of this call
NoCall == [kind |-> "none", line |-> NoStat, found |-> CpuUsageState0, before |-> <<>>,
           before_regressed |-> FALSE, result |-> None]

CallRecord(st, line, old) ==
  [kind |-> IF ReadsCpuLine(line) THEN "read" ELSE "unread",
   line |-> line,
   found |-> st,
   before |-> IF old.kind = "read" THEN <<IdleTicks(old.line), TotalTicks(old.line)>> ELSE old.before,
   before_regressed |-> IF old.kind = "read" THEN SeesRegression(old.found, old.line)
                        ELSE old.before_regressed,
   result |-> collectCpuUsagePercent(st, line).result]

InitSampler ==
  /\ state = CpuUsageState0
  /\ cpu_call = NoCall

\* a call of the sampler on whatever /proc/stat holds at that moment
SampleCpu ==
  \E line \in StatInputs :
    /\ state' = collectCpuUsagePercent(state, line).state
    /\ cpu_call' = CallRecord(state, line, cpu_call)
    /\ UNCHANGED <<gpuVars, historyVars, layoutVars, mainVars, pureVars>>


(***************************************************************************)
(* std::string: a sequence of character codes                              *)
(***************************************************************************)
STR_nvidia == <<110, 118, 105, 100, 105, 97>>                \* "nvidia"
STR_nvidia_smi == <<110, 118, 105, 100, 105, 97, 45, 115, 109, 105>>  \* "nvidia-smi"
STR_sysfs == <<115, 121, 115, 102, 115>>                     \* "sysfs"
STR_sysfs_slash == <<115, 121, 115, 102, 115, 47>>           \* "sysfs/"
STR_Unknown == <<85, 110, 107, 110, 111, 119, 110>>          \* "Unknown"
STR_NVIDIA == <<78, 86, 73, 68, 73, 65>>                     \* "NVIDIA"
STR_AMD == <<65, 77, 68>>                                    \* "AMD"
STR_Intel == <<73, 110, 116, 101, 108>>                      \* "Intel"
STR_Vendor == <<86, 101, 110, 100, 111, 114, 32>>            \* "Vendor "
STR_0x10de == <<48, 120, 49, 48, 100, 101>>                  \* "0x10de"
STR_0x1002 == <<48, 120, 49, 48, 48, 50>>                    \* "0x1002"
STR_0x8086 == <<48, 120, 56, 48, 56, 54>>                    \* "0x8086"
STR_0x10DE == <<48, 120, 49, 48, 68, 69>>                    \* "0x10DE"
STR_card == <<99, 97, 114, 100>>                             \* "card"
STR_amdgpu == <<97, 109, 100, 103, 112, 117>>                \* "amdgpu"
STR_i915 == <<105, 57, 49, 53>>                              \* "i915"
STR_GeForce == <<78, 86, 73, 68, 73, 65, 32, 71, 101, 70, 111, 114, 99, 101>>  \* "NVIDIA GeForce"
STR_Tesla == <<84, 101, 115, 108, 97, 32, 84, 52>>           \* "Tesla T4"

toLower(value) ==
  [i \in 1..Len(value) |-> IF value[i] >= 65 /\ value[i] <= 90 THEN value[i] + 32 ELSE value[i]]

\* text.find(needle) != std::string::npos
Contains(text, needle) ==
  \E i \in 0..(Len(text) - Len(needle)) : SubSeq(text, i + 1, i + Len(needle)) = needle

\* std::string operator<
StrLess(a, b) ==
  \E i \in 1..(Len(b)) :
    /\ \A j \in 1..(i - 1) : j <= Len(a) /\ a[j] = b[j]
    /\ (i > Len(a) \/ a[i] < b[i])

(***************************************************************************)
(* GpuMetrics and the telemetry score                                      *)
(***************************************************************************)
GpuMetrics0 ==
  [name |-> <<>>, source |-> <<>>, in_use |-> None, temperature_c |-> None, core_clock_mhz |-> None,
   utilization_percent |-> None, power_w |-> None, memory_used_mib |-> None,
   memory_total_mib |-> None, memory_utilization_percent |-> None]

\* variant: a power reading does not count
telemetryScore_PowerUncounted(gpu) ==
  (IF HasValue(gpu.temperature_c) THEN 2 ELSE 0)
  + (IF HasValue(gpu.core_clock_mhz) THEN 2 ELSE 0)
  + (IF HasValue(gpu.utilization_percent) THEN 3 ELSE 0)
  + (IF HasValue(gpu.memory_used_mib) \/ HasValue(gpu.memory_total_mib) THEN 2 ELSE 0)
  + (IF HasValue(gpu.memory_utilization_percent) THEN 1 ELSE 0)

telemetryScore(gpu) ==
  (IF HasValue(gpu.temperature_c) THEN 2 ELSE 0)
  + (IF HasValue(gpu.core_clock_mhz) THEN 2 ELSE 0)
  + (IF HasValue(gpu.utilization_percent) THEN 3 ELSE 0)
  + (IF HasValue(gpu.power_w) THEN 2 ELSE 0)
  + (IF HasValue(gpu.memory_used_mib) \/ HasValue(gpu.memory_total_mib) THEN 2 ELSE 0)
  + (IF HasValue(gpu.memory_utilization_percent) THEN 1 ELSE 0)

gpuLooksNvidia(gpu) ==
  Contains(toLower(gpu.name), STR_nvidia) \/ Contains(toLower(gpu.source), STR_nvidia)

\* variant: the comparator without the name tie-break
ScoreBefore_ScoreOnly(lhs, rhs) == telemetryScore(lhs) > telemetryScore(rhs)

\* the comparator of both std::stable_sort calls
ScoreBefore(lhs, rhs) ==
  IF telemetryScore(lhs) # telemetryScore(rhs)
  THEN telemetryScore(lhs) > telemetryScore(rhs)
  ELSE StrLess(lhs.name, rhs.name)

\* insert x behind every element it is not ordered before: the stable position
InsertSorted(sorted, x) ==
  LET firstAfter == {k \in 1..Len(sorted) : ScoreBefore(x, sorted[k])}
      at == IF firstAfter = {} THEN Len(sorted) + 1
            ELSE CHOOSE k \in firstAfter : \A m \in firstAfter : k <= m
  IN SubSeq(sorted, 1, at - 1) \o <<x>> \o SubSeq(sorted, at, Len(sorted))

RECURSIVE SortPrefix(_, _)
SortPrefix(gpus, n) == IF n = 0 THEN <<>> ELSE InsertSorted(SortPrefix(gpus, n - 1), gpus[n])

\* std::stable_sort(gpus.begin(), gpus.end(), comparator)
StableSortGpus(gpus) == SortPrefix(gpus, Len(gpus))

(***************************************************************************)
(* The external-tool probe: collectGpusFromNvidiaSmi                       *)
(***************************************************************************)
\* a CSV row of the tool after splitByChar and parseOptionalDouble
ToolRow(name, temp, clock, util, power, used, total) ==
  [name |-> name, temperature |-> temp, clocks |-> clock, utilization |-> util,
   power_draw |-> power, memory_used |-> used, memory_total |-> total]

\* 100.0 * used / total
MemoryUtilization(used, total) == Rat(100 * used[1] * total[2], used[2] * total[1])

GpuFromToolRow(row) ==
  [GpuMetrics0 EXCEPT
     !.name = row.name,
     !.source = STR_nvidia_smi,
     !.temperature_c = row.temperature,
     !.core_clock_mhz = row.clocks,
     !.utilization_percent = row.utilization,
     !.power_w = row.power_draw,
     !.memory_used_mib = row.memory_used,
     !.memory_total_mib = row.memory_total,
     !.memory_utilization_percent =
        IF HasValue(row.memory_used) /\ HasValue(row.memory_total)
           /\ RatLess(Num(0), ValueOf(row.memory_total))
        THEN Some(MemoryUtilization(ValueOf(row.memory_used), ValueOf(row.memory_total)))
        ELSE None]

collectGpusFromNvidiaSmi(rows) == [i \in 1..Len(rows) |-> GpuFromToolRow(rows[i])]

(***************************************************************************)
(* The sysfs probe: collectGpusFromSysfs                                   *)
(***************************************************************************)
vendorNameFromId(vendor_id) ==
  IF ~HasValue(vendor_id) THEN STR_Unknown
  ELSE LET lower == toLower(ValueOf(vendor_id))
       IN IF lower = STR_0x10de THEN STR_NVIDIA
          ELSE IF lower = STR_0x1002 THEN STR_AMD
          ELSE IF lower = STR_0x8086 THEN STR_Intel
          ELSE STR_Vendor \o ValueOf(vendor_id)

normalizePercent(raw_value) ==
  IF raw_value < 0 \/ raw_value > 100 THEN None ELSE Some(Num(raw_value))

\* what the files of one display-class card directory hold
Card(vendor, driver, in_use, power, milli_c, gt_mhz, sclk_mhz, busy, used_bytes, total_bytes) ==
  [vendor_id |-> vendor, driver_name |-> driver, in_use |-> in_use, hwmon_power_w |-> power,
   temp_milli_c |-> milli_c, gt_cur_freq_mhz |-> gt_mhz, pp_dpm_sclk_mhz |-> sclk_mhz,
   gpu_busy_percent |-> busy, vram_used_bytes |-> used_bytes, vram_total_bytes |-> total_bytes]

MiB == 1024 * 1024

\* the directory name of the i-th card: "card0", "card1", ...
CardName(i) == STR_card \o <<48 + (i - 1)>>

GpuFromCard(card_name, card, fallback_gpu_power_w) ==
  LET hasVram == HasValue(card.vram_used_bytes) /\ HasValue(card.vram_total_bytes)
                   /\ ValueOf(card.vram_total_bytes) > 0
      power == card.hwmon_power_w
  IN [GpuMetrics0 EXCEPT
        !.source = IF HasValue(card.driver_name) THEN STR_sysfs_slash \o ValueOf(card.driver_name)
                   ELSE STR_sysfs,
        !.name = card_name \o <<32, 40>> \o vendorNameFromId(card.vendor_id) \o <<41>>,
        !.in_use = card.in_use,
        !.temperature_c = IF HasValue(card.temp_milli_c)
                          THEN Some(Rat(ValueOf(card.temp_milli_c), 1000)) ELSE None,
        !.core_clock_mhz = IF HasValue(card.gt_cur_freq_mhz) /\ ValueOf(card.gt_cur_freq_mhz) > 0
                           THEN Some(Num(ValueOf(card.gt_cur_freq_mhz)))
                           ELSE card.pp_dpm_sclk_mhz,
        !.utilization_percent = IF HasValue(card.gpu_busy_percent)
                                THEN normalizePercent(ValueOf(card.gpu_busy_percent)) ELSE None,
        !.memory_used_mib = IF hasVram THEN Some(Rat(ValueOf(card.vram_used_bytes), MiB)) ELSE None,
        !.memory_total_mib = IF hasVram THEN Some(Rat(ValueOf(card.vram_total_bytes), MiB)) ELSE None,
        !.memory_utilization_percent =
           IF hasVram
           THEN Some(MemoryUtilization(Rat(ValueOf(card.vram_used_bytes), MiB),
                                       Rat(ValueOf(card.vram_total_bytes), MiB)))
           ELSE None,
        !.power_w = IF HasValue(power) THEN power ELSE fallback_gpu_power_w]

\* variant: a card is pushed only when a telemetry field is populated
collectGpusFromSysfs_TelemetryOnly(cards, fallback_gpu_power_w) ==
  StableSortGpus(SelectSeq([i \in 1..Len(cards) |-> GpuFromCard(CardName(i), cards[i], fallback_gpu_power_w)],
                           LAMBDA g : telemetryScore(g) > 0))

\* cards in directory order; the list is returned sorted by score, then name
collectGpusFromSysfs(cards, fallback_gpu_power_w) ==
  StableSortGpus([i \in 1..Len(cards) |-> GpuFromCard(CardName(i), cards[i], fallback_gpu_power_w)])

(***************************************************************************)
(* GPU fusion: collectGpus                                                 *)
(***************************************************************************)
\* variant: every sysfs entry counts as an NVIDIA card
NvidiaSysfsIndices_Any(sysfs) == [i \in 1..Len(sysfs) |-> i]

\* the positions of the sysfs entries that look like NVIDIA cards, in list order
NvidiaSysfsIndices(sysfs) ==
  SelectSeq([i \in 1..Len(sysfs) |-> i], LAMBDA i : gpuLooksNvidia(sysfs[i]))

AllSysfsIndices(sysfs) == [i \in 1..Len(sysfs) |-> i]

\* one of the two while loops: advance through indices to the first unused entry;
\* idx = 0 stands for "extra stays nullptr"
RECURSIVE TakeNextUnused(_, _, _)
TakeNextUnused(indices, next, sysfs_used) ==
  IF next >= Len(indices) THEN [idx |-> 0, next |-> next]
  ELSE LET idx == indices[next + 1]
       IN IF ~sysfs_used[idx] THEN [idx |-> idx, next |-> next + 1]
          ELSE TakeNextUnused(indices, next + 1, sysfs_used)

\* variant: the temperature of the sysfs entry replaces the one the tool reported
SupplementFrom_OverwritesTemperature(base, extra) ==
  [base EXCEPT
     !.temperature_c = IF HasValue(extra.temperature_c) THEN extra.temperature_c ELSE @,
     !.core_clock_mhz = IF HasValue(base.core_clock_mhz) THEN @ ELSE extra.core_clock_mhz,
     !.utilization_percent = IF HasValue(base.utilization_percent) THEN @ ELSE extra.utilization_percent,
     !.power_w = IF HasValue(base.power_w) THEN @ ELSE extra.power_w,
     !.memory_used_mib = IF HasValue(base.memory_used_mib) THEN @ ELSE extra.memory_used_mib,
     !.memory_total_mib = IF HasValue(base.memory_total_mib) THEN @ ELSE extra.memory_total_mib,
     !.memory_utilization_percent =
        IF HasValue(base.memory_utilization_percent) THEN @ ELSE extra.memory_utilization_percent,
     !.in_use = IF ~HasValue(base.in_use) /\ HasValue(extra.in_use) THEN extra.in_use ELSE @]

\* the field-by-field supplement of a tool entry from its sysfs entry
SupplementFrom(base, extra) ==
  [base EXCEPT
     !.temperature_c = IF HasValue(base.temperature_c) THEN @ ELSE extra.temperature_c,
     !.core_clock_mhz = IF HasValue(base.core_clock_mhz) THEN @ ELSE extra.core_clock_mhz,
     !.utilization_percent = IF HasValue(base.utilization_percent) THEN @ ELSE extra.utilization_percent,
     !.power_w = IF HasValue(base.power_w) THEN @ ELSE extra.power_w,
     !.memory_used_mib = IF HasValue(base.memory_used_mib) THEN @ ELSE extra.memory_used_mib,
     !.memory_total_mib = IF HasValue(base.memory_total_mib) THEN @ ELSE extra.memory_total_mib,
     !.memory_utilization_percent =
        IF HasValue(base.memory_utilization_percent) THEN @ ELSE extra.memory_utilization_percent,
     !.in_use = IF ~HasValue(base.in_use) /\ HasValue(extra.in_use) THEN extra.in_use ELSE @]

FusionLocals0(sysfs) ==
  [sysfs_used |-> [i \in 1..Len(sysfs) |-> FALSE], next_nvidia_index |-> 0, next_any_index |-> 0,
   nvidia |-> <<>>, extra |-> <<>>]

\* variant: a tool entry is paired with an NVIDIA sysfs entry or with none
FuseOne_NvidiaOnly(loc, base, sysfs) ==
  LET fromNvidia == TakeNextUnused(NvidiaSysfsIndices(sysfs), loc.next_nvidia_index, loc.sysfs_used)
      idx == fromNvidia.idx
  IN [sysfs_used |-> IF idx = 0 THEN loc.sysfs_used ELSE [loc.sysfs_used EXCEPT ![idx] = TRUE],
      next_nvidia_index |-> fromNvidia.next,
      next_any_index |-> loc.next_any_index,
      nvidia |-> Append(loc.nvidia, IF idx = 0 THEN base ELSE SupplementFrom(base, sysfs[idx])),
      extra |-> Append(loc.extra, idx)]

\* the body of "for (auto& base : nvidia)" for one tool entry
FuseOne(loc, base, sysfs) ==
  LET fromNvidia == TakeNextUnused(NvidiaSysfsIndices(sysfs), loc.next_nvidia_index, loc.sysfs_used)
      fromAny == IF fromNvidia.idx # 0 THEN [idx |-> 0, next |-> loc.next_any_index]
                 ELSE TakeNextUnused(AllSysfsIndices(sysfs), loc.next_any_index, loc.sysfs_used)
      idx == IF fromNvidia.idx # 0 THEN fromNvidia.idx ELSE fromAny.idx
  IN [sysfs_used |-> IF idx = 0 THEN loc.sysfs_used ELSE [loc.sysfs_used EXCEPT ![idx] = TRUE],
      next_nvidia_index |-> fromNvidia.next,
      next_any_index |-> fromAny.next,
      nvidia |-> Append(loc.nvidia, IF idx = 0 THEN base ELSE SupplementFrom(base, sysfs[idx])),
      extra |-> Append(loc.extra, idx)]

RECURSIVE FusePrefix(_, _, _)
FusePrefix(nvidia, sysfs, n) ==
  IF n = 0 THEN FusionLocals0(sysfs) ELSE FuseOne(FusePrefix(nvidia, sysfs, n - 1), nvidia[n], sysfs)

\* the second loop over the tool entries: sensors power fallback, derived memory utilization
FillDerived(gpu, fallback_gpu_power_w) ==
  LET withPower == IF HasValue(gpu.power_w) THEN gpu ELSE [gpu EXCEPT !.power_w = fallback_gpu_power_w]
  IN IF ~HasValue(withPower.memory_utilization_percent) /\ HasValue(withPower.memory_used_mib)
        /\ HasValue(withPower.memory_total_mib) /\ RatLess(Num(0), ValueOf(withPower.memory_total_mib))
     THEN [withPower EXCEPT !.memory_utilization_percent =
             Some(MemoryUtilization(ValueOf(withPower.memory_used_mib), ValueOf(withPower.memory_total_mib)))]
     ELSE withPower

\* variant: every sysfs entry is pushed, consumed or not
UnusedSysfs_All(sysfs, sysfs_used) == sysfs

\* the sysfs entries pushed behind the tool entries
UnusedSysfs(sysfs, sysfs_used) ==
  LET idxs == SelectSeq(AllSysfsIndices(sysfs), LAMBDA i : ~sysfs_used[i])
  IN [k \in 1..Len(idxs) |-> sysfs[idxs[k]]]

\* the returned list together with the locals of the call
collectGpus(rows, cards, fallback_sysfs, fallback_fuse) ==
  LET nvidia == collectGpusFromNvidiaSmi(rows)
      sysfs == collectGpusFromSysfs(cards, fallback_sysfs)
  IN IF nvidia # <<>>
     THEN LET loc == FusePrefix(nvidia, sysfs, Len(nvidia))
              filled == [i \in 1..Len(nvidia) |-> FillDerived(loc.nvidia[i], fallback_fuse)]
          IN [pc |-> "returned", tool |-> nvidia, sysfs |-> sysfs, extra |-> loc.extra,
              sysfs_used |-> loc.sysfs_used, fused |-> filled,
              gpus |-> StableSortGpus(filled \o UnusedSysfs(sysfs, loc.sysfs_used))]
     ELSE [pc |-> "returned", tool |-> nvidia, sysfs |-> sysfs, extra |-> <<>>,
           sysfs_used |-> [i \in 1..Len(sysfs) |-> FALSE], fused |-> <<>>, gpus |-> sysfs]

\* rows the external tool may report
ToolRows ==
  { ToolRow(STR_GeForce, Some(Num(60)), Some(Num(1500)), Some(Num(30)), Some(Num(75)),
            Some(Num(100)), Some(Num(400))),
    ToolRow(STR_GeForce, None, None, None, None, None, None),
    ToolRow(STR_Tesla, Some(Num(55)), None, Some(Num(10)), None, Some(Num(100)), None),
    ToolRow(STR_Tesla, None, None, None, None, Some(Num(100)), Some(Num(0))) }

\* cards the DRM tree may hold
SysfsCards ==
  { Card(Some(STR_0x10de), Some(STR_nvidia), Some(TRUE), None, None, None, None, None, None, None),
    Card(Some(STR_0x1002), Some(STR_amdgpu), Some(FALSE), Some(Num(20)), Some(45000), None,
         Some(Num(500)), Some(12), Some(200 * MiB), Some(400 * MiB)),
    Card(Some(STR_0x8086), Some(STR_i915), None, None, None, Some(300), None, None, None, None),
    Card(None, None, None, None, None, None, None, None, None, None),
    Card(Some(STR_0x10DE), None, Some(FALSE), None, Some(50000), None, None, Some(101), None, None) }

SensorsGpuPower == {None, Some(Num(35))}

\* all sequences over S of length 0..n
RECURSIVE SeqsUpTo(_, _)
SeqsUpTo(S, n) ==
  IF n = 0 THEN {<<>>}
  ELSE LET shorter == SeqsUpTo(S, n - 1)
       IN shorter \cup {Append(q, x) : q \in {r \in shorter : Len(r) = n - 1}, x \in S}

ProbeInputs ==
  [rows : SeqsUpTo(ToolRows, MaxTool), cards : SeqsUpTo(SysfsCards, MaxSysfs),
   fallback_sysfs : SensorsGpuPower, fallback_fuse : SensorsGpuPower]

NoProbe == [rows |-> <<>>, cards |-> <<>>, fallback_sysfs |-> None, fallback_fuse |-> None]
NotCollected == [pc |-> "start", tool |-> <<>>, sysfs |-> <<>>, extra |-> <<>>, sysfs_used |-> <<>>,
                 fused |-> <<>>, gpus |-> <<>>]

InitGpu ==
  /\ probe \in ProbeInputs
  /\ fusion = NotCollected

\* one call of collectGpus on what the probes find
CollectGpus ==
  /\ fusion.pc = "start"
  /\ fusion' = collectGpus(probe.rows, probe.cards, probe.fallback_sysfs, probe.fallback_fuse)
  /\ UNCHANGED <<probe, samplerVars, historyVars, layoutVars, mainVars, pureVars>>


(***************************************************************************)
(* Display-GPU selection: pickDisplayGpuIndex                              *)
(***************************************************************************)
STR_intel == <<105, 110, 116, 101, 108>>                     \* "intel"
STR_xe == <<120, 101>>                                       \* "xe"
STR_radeon == <<114, 97, 100, 101, 111, 110>>                \* "radeon"

gpuHasTelemetry(gpu) ==
  \/ HasValue(gpu.temperature_c) \/ HasValue(gpu.core_clock_mhz) \/ HasValue(gpu.utilization_percent)
  \/ HasValue(gpu.power_w) \/ HasValue(gpu.memory_used_mib) \/ HasValue(gpu.memory_total_mib)
  \/ HasValue(gpu.memory_utilization_percent)

gpuLooksIntel(gpu) ==
  \/ Contains(toLower(gpu.name), STR_intel) \/ Contains(toLower(gpu.source), STR_intel)
  \/ Contains(toLower(gpu.source), STR_i915) \/ Contains(toLower(gpu.source), STR_xe)

gpuLooksRadeon(gpu) ==
  Contains(toLower(gpu.source), STR_radeon) \/ Contains(toLower(gpu.name), STR_radeon)

\* the least element of a set of indices, or size when there is none
FirstIndex(S, size) == IF S = {} THEN size ELSE CHOOSE i \in S : \A j \in S : i <= j

\* variant: the Radeon special case is left out
pickDisplayGpuIndex_FirstTelemetry(gpus) ==
  IF gpus = <<>> THEN 0
  ELSE LET size == Len(gpus)
           first_with_telemetry == FirstIndex({i \in 0..(size - 1) : gpuHasTelemetry(gpus[i + 1])}, size)
       IN IF first_with_telemetry # size THEN first_with_telemetry ELSE 0

\* indices count from 0 as in the source
pickDisplayGpuIndex(gpus) ==
  IF gpus = <<>> THEN 0
  ELSE LET size == Len(gpus)
           first_with_telemetry == FirstIndex({i \in 0..(size - 1) : gpuHasTelemetry(gpus[i + 1])}, size)
           intel_with_telemetry ==
             FirstIndex({i \in 0..(size - 1) : gpuLooksIntel(gpus[i + 1]) /\ gpuHasTelemetry(gpus[i + 1])}, size)
           first_intel == FirstIndex({i \in 0..(size - 1) : gpuLooksIntel(gpus[i + 1])}, size)
       IN IF gpuLooksRadeon(gpus[1]) /\ ~gpuHasTelemetry(gpus[1]) /\ intel_with_telemetry # size
          THEN intel_with_telemetry
          ELSE IF gpuLooksRadeon(gpus[1]) /\ ~gpuHasTelemetry(gpus[1]) /\ first_with_telemetry # size
          THEN first_with_telemetry
          ELSE IF gpuLooksRadeon(gpus[1]) /\ ~gpuHasTelemetry(gpus[1]) /\ first_intel # size
          THEN first_intel
          ELSE IF first_with_telemetry # size THEN first_with_telemetry
          ELSE 0

anyGpuHasTelemetry(gpus) == \E i \in 1..Len(gpus) : gpuHasTelemetry(gpus[i])

gpuIsRelevantForSummary(gpu) == gpuHasTelemetry(gpu) \/ (HasValue(gpu.in_use) /\ ValueOf(gpu.in_use))

countAdditionalRelevantGpus(gpus, selected_gpu_index) ==
  IF selected_gpu_index >= Len(gpus) THEN 0
  ELSE Cardinality({i \in 0..(Len(gpus) - 1) :
                      i # selected_gpu_index /\ gpuIsRelevantForSummary(gpus[i + 1])})

\* std::optional<size_t>, indices from 0
pickInUseGpuIndex(gpus) ==
  LET used == {i \in 0..(Len(gpus) - 1) : HasValue(gpus[i + 1].in_use) /\ ValueOf(gpus[i + 1].in_use)}
  IN IF used # {} THEN Some(FirstIndex(used, Len(gpus)))
     ELSE IF gpus = <<>> THEN None
     ELSE Some(pickDisplayGpuIndex(gpus))

\* a sysfs record of a card with the given driver and vendor, with or without a reading
PickGpu(vendor, driver, in_use, milli_c) ==
  GpuFromCard(CardName(1), Card(vendor, driver, in_use, None, milli_c, None, None, None, None, None), None)

\* GPU records of the kinds the selection tells apart
PickGpus ==
  { PickGpu(Some(STR_0x1002), Some(STR_radeon), Some(FALSE), None),
    PickGpu(Some(STR_0x1002), Some(STR_radeon), None, Some(50000)),
    PickGpu(Some(STR_0x8086), Some(STR_i915), Some(TRUE), None),
    PickGpu(Some(STR_0x8086), Some(STR_i915), Some(FALSE), Some(40000)),
    PickGpu(Some(STR_0x1002), Some(STR_amdgpu), Some(TRUE), Some(45000)),
    PickGpu(None, None, None, None) }

NoPick == [pc |-> "off", gpus |-> <<>>, display |-> 0, in_use |-> None]

InitPick == \E gpus \in SeqsUpTo(PickGpus, MaxGpus) : pick = [NoPick EXCEPT !.pc = "call", !.gpus = gpus]

\* one call of each selection function on the list
PickGpuIndices ==
  /\ pick.pc = "call"
  /\ pick' = [pick EXCEPT !.pc = "returned", !.display = pickDisplayGpuIndex(pick.gpus),
                          !.in_use = pickInUseGpuIndex(pick.gpus)]
  /\ UNCHANGED <<samplerVars, gpuVars, historyVars, layoutVars, mainVars, brailleVars, thermalVars, sensorsVars>>

\* cards without any reading, added to the cards the DRM tree may hold
DisplayCards ==
  SysfsCards \cup
  { Card(Some(STR_0x1002), Some(STR_radeon), Some(TRUE), None, None, None, None, None, None, None),
    Card(Some(STR_0x8086), Some(STR_i915), Some(FALSE), None, None, None, None, None, None, None) }

\* both calls of the sensors fallback of one collectGpus fall into one cache window
DisplayProbes ==
  { [rows |-> rows, cards |-> cards, fallback_sysfs |-> power, fallback_fuse |-> power] :
      rows \in SeqsUpTo(ToolRows, MaxTool), cards \in SeqsUpTo(DisplayCards, MaxSysfs), power \in SensorsGpuPower }

InitDisplay ==
  /\ probe \in DisplayProbes
  /\ fusion = NotCollected

\* the selection functions called on snapshot.gpus, the list collectGpus returned
PickCollected ==
  /\ fusion.pc = "returned"
  /\ pick.pc = "off"
  /\ pick' = [pc |-> "returned", gpus |-> fusion.gpus, display |-> pickDisplayGpuIndex(fusion.gpus),
              in_use |-> pickInUseGpuIndex(fusion.gpus)]
  /\ UNCHANGED <<samplerVars, gpuVars, historyVars, layoutVars, mainVars, brailleVars, thermalVars, sensorsVars>>

(***************************************************************************)
(* Bounded history store: appendHistoryValue, updateHistory                *)
(***************************************************************************)
Series == {"cpu_usage", "cpu_temp", "ram_usage", "gpu_usage", "gpu_vram_usage", "disk_usage"}

MetricsHistory0 == [s \in Series |-> <<>>]

Snapshot(usage_percent, temperature_c, total_kb, available_kb, total_bytes, free_bytes, gpus) ==
  [cpu |-> [usage_percent |-> usage_percent, temperature_c |-> temperature_c],
   ram |-> [total_kb |-> total_kb, available_kb |-> available_kb],
   disk |-> [total_bytes |-> total_bytes, free_bytes |-> free_bytes],
   gpus |-> gpus]

Snapshot0 == Snapshot(None, None, None, None, None, None, <<>>)

Max(a, b) == IF a < b THEN b ELSE a
Min(a, b) == IF b < a THEN b ELSE a

clampPercent(value) == RatMax(Num(0), RatMin(Num(100), value))

computeRamUsagePercent(snap) ==
  IF ~HasValue(snap.ram.total_kb) \/ ~HasValue(snap.ram.available_kb)
     \/ ValueOf(snap.ram.total_kb) <= 0
  THEN None
  ELSE LET total_kb == ValueOf(snap.ram.total_kb)
           available_kb == Max(0, ValueOf(snap.ram.available_kb))
           used_kb == Max(0, total_kb - available_kb)
       IN Some(Rat(100 * used_kb, total_kb))

computeGpuUsagePercent(snap) ==
  IF snap.gpus = <<>> THEN None
  ELSE snap.gpus[pickDisplayGpuIndex(snap.gpus) + 1].utilization_percent

computeGpuVramUsagePercent(snap) ==
  IF snap.gpus = <<>> THEN None
  ELSE LET gpu == snap.gpus[pickDisplayGpuIndex(snap.gpus) + 1]
       IN IF HasValue(gpu.memory_utilization_percent) THEN gpu.memory_utilization_percent
          ELSE IF HasValue(gpu.memory_used_mib) /\ HasValue(gpu.memory_total_mib)
                  /\ RatLess(Num(0), ValueOf(gpu.memory_total_mib))
          THEN Some(MemoryUtilization(ValueOf(gpu.memory_used_mib), ValueOf(gpu.memory_total_mib)))
          ELSE None

computeDiskUsagePercent(snap) ==
  IF ~HasValue(snap.disk.total_bytes) \/ ~HasValue(snap.disk.free_bytes)
     \/ ValueOf(snap.disk.total_bytes) = 0
  THEN None
  ELSE LET total == ValueOf(snap.disk.total_bytes)
           free == Min(ValueOf(snap.disk.free_bytes), total)
       IN Some(Rat(100 * (total - free), total))

\* variant: value.value_or(0.0)
NextHistoryValue_ZeroWhenMissing(series, value) ==
  clampPercent(IF HasValue(value) THEN ValueOf(value) ELSE Num(0))

\* value.value_or(series->empty() ? 0.0 : series->back()), limited to [0, 100]
NextHistoryValue(series, value) ==
  clampPercent(IF HasValue(value) THEN ValueOf(value)
               ELSE IF series = <<>> THEN Num(0) ELSE series[Len(series)])

\* variant: the erase removes from the back
EvictOldest_DropsNewest(series, points) ==
  IF Len(series) > points THEN SubSeq(series, 1, points) ELSE series

\* erase(begin, begin + (size - max_points)) when size > max_points
EvictOldest(series, points) ==
  IF Len(series) > points THEN SubSeq(series, Len(series) - points + 1, Len(series)) ELSE series

appendHistoryValue(series, value, points) ==
  EvictOldest(Append(series, NextHistoryValue(series, value)), points)

\* variant: the CPU series take each other's field
HistorySample_CpuFieldsSwapped(snap, disk_override_percent) ==
  [s \in Series |->
     CASE s = "cpu_usage" -> snap.cpu.temperature_c
       [] s = "cpu_temp" -> snap.cpu.usage_percent
       [] s = "ram_usage" -> computeRamUsagePercent(snap)
       [] s = "gpu_usage" -> computeGpuUsagePercent(snap)
       [] s = "gpu_vram_usage" -> computeGpuVramUsagePercent(snap)
       [] s = "disk_usage" -> IF HasValue(disk_override_percent) THEN disk_override_percent
                              ELSE computeDiskUsagePercent(snap)]

\* the optional handed to appendHistoryValue for each series
HistorySample(snap, disk_override_percent) ==
  [s \in Series |->
     CASE s = "cpu_usage" -> snap.cpu.usage_percent
       [] s = "cpu_temp" -> snap.cpu.temperature_c
       [] s = "ram_usage" -> computeRamUsagePercent(snap)
       [] s = "gpu_usage" -> computeGpuUsagePercent(snap)
       [] s = "gpu_vram_usage" -> computeGpuVramUsagePercent(snap)
       [] s = "disk_usage" -> IF HasValue(disk_override_percent) THEN disk_override_percent
                              ELSE computeDiskUsagePercent(snap)]

updateHistory(h, snap, points, disk_override_percent) ==
  IF points = 0 THEN h
  ELSE [s \in Series |-> appendHistoryValue(h[s], HistorySample(snap, disk_override_percent)[s], points)]

\* the log of pushed values after a call
PushedAfter(log, h, snap, points, disk_override_percent) ==
  IF points = 0 THEN log
  ELSE [s \in Series |->
          Append(log[s], NextHistoryValue(h[s], HistorySample(snap, disk_override_percent)[s]))]

NoHistoryCall == [n |-> 0, snapshot |-> Snapshot0, disk_override_percent |-> None, found |-> MetricsHistory0]

\* a tool-reported GPU as it sits in a Snapshot
SnapshotGpu(util, used, total) ==
  GpuFromToolRow(ToolRow(STR_GeForce, Some(Num(60)), None, util, None, used, total))

\* the arguments updateHistory is called with: a Snapshot and the disk-busy override
HistoryInputs ==
  { [snapshot |-> Snapshot0, disk_override_percent |-> None],
    [snapshot |-> Snapshot(Some(Num(50)), Some(Num(60)), Some(8000), Some(6000), Some(1000), Some(900),
                           <<SnapshotGpu(Some(Num(30)), Some(Num(100)), Some(Num(400)))>>),
     disk_override_percent |-> Some(Num(10))],
    [snapshot |-> Snapshot(Some(Rat(200, 3)), Some(Num(120)), Some(8000), Some(0), Some(1000), Some(2000),
                           <<SnapshotGpu(Some(Num(-5)), Some(Num(520)), Some(Num(400)))>>),
     disk_override_percent |-> Some(Num(100))],
    [snapshot |-> Snapshot(Some(Num(75)), None, Some(8000), Some(9000), Some(1000), Some(200), <<>>),
     disk_override_percent |-> None] }

InitHistory ==
  /\ history = MetricsHistory0
  /\ hist_call = NoHistoryCall
  /\ pushed = MetricsHistory0

\* one call of updateHistory
UpdateHistory ==
  /\ hist_call.n < MaxCalls
  /\ \E in \in HistoryInputs :
       /\ history' = updateHistory(history, in.snapshot, max_points, in.disk_override_percent)
       /\ pushed' = PushedAfter(pushed, history, in.snapshot, max_points, in.disk_override_percent)
       /\ hist_call' = [n |-> hist_call.n + 1, snapshot |-> in.snapshot,
                        disk_override_percent |-> in.disk_override_percent, found |-> history]
  /\ UNCHANGED <<max_points, samplerVars, gpuVars, layoutVars, mainVars, pureVars>>

(***************************************************************************)
(* Column layout: splitColumnHeights                                       *)
(***************************************************************************)
\* variant: the cast truncates instead of rounding
RoundDiv_Truncate(n, d) == IF n >= 0 THEN n \div d ELSE -((-n) \div d)

\* std::round of n / d for d > 0: to the nearest integer, halves away from zero
RoundDiv(n, d) ==
  IF n >= 0 THEN (2 * n + d) \div (2 * d) ELSE -((2 * (-n) + d) \div (2 * d))

splitColumnHeights(total_h, top_pref_h, bottom_pref_h, gap) ==
  LET min_panel_h == 4
      available == Max(min_panel_h * 2, total_h - gap)
      pref_sum == Max(1, top_pref_h + bottom_pref_h)
      proposed_top == Max(min_panel_h, Min(available - min_panel_h, RoundDiv(available * top_pref_h, pref_sum)))
  IN [top_h |-> proposed_top, bottom_h |-> available - proposed_top]

SplitInputs ==
  [total_h : 0..MaxTotalH, top_pref_h : 0..MaxPref, bottom_pref_h : 0..MaxPref, gap : 0..MaxGap]

NoSplit == [pc |-> "off", total_h |-> 0, top_pref_h |-> 0, bottom_pref_h |-> 0, gap |-> 0,
            top_h |-> 4, bottom_h |-> 4]

InitLayout ==
  \E in \in SplitInputs :
    split = [pc |-> "call", total_h |-> in.total_h, top_pref_h |-> in.top_pref_h,
             bottom_pref_h |-> in.bottom_pref_h, gap |-> in.gap, top_h |-> 4, bottom_h |-> 4]

\* one call of splitColumnHeights; the outputs start at min_panel_h as in renderSnapshot
SplitColumn ==
  /\ split.pc = "call"
  /\ LET out == splitColumnHeights(split.total_h, split.top_pref_h, split.bottom_pref_h, split.gap)
     IN split' = [split EXCEPT !.pc = "returned", !.top_h = out.top_h, !.bottom_h = out.bottom_h]
  /\ UNCHANGED <<samplerVars, gpuVars, historyVars, mainVars, pureVars>>

(***************************************************************************)
(* Trend graph rasterizer: BrailleCanvas, rasterizeBrailleLine,            *)
(* plotBrailleSeries, drawBrailleLayer                                     *)
(***************************************************************************)
kDirUp == 1
kDirDown == 2
kDirLeft == 4
kDirRight == 8
kDirPoint == 16

\* bit k of a uint16_t
HasBit(mask, k) == (mask \div (2 ^ k)) % 2 = 1

RECURSIVE BitOrFrom(_, _, _)
BitOrFrom(a, b, k) ==
  IF k = 16 THEN 0
  ELSE (IF HasBit(a, k) \/ HasBit(b, k) THEN 2 ^ k ELSE 0) + BitOrFrom(a, b, k + 1)

RECURSIVE BitAndFrom(_, _, _)
BitAndFrom(a, b, k) ==
  IF k = 16 THEN 0
  ELSE (IF HasBit(a, k) /\ HasBit(b, k) THEN 2 ^ k ELSE 0) + BitAndFrom(a, b, k + 1)

\* a | b and a & b on uint16_t
BitOr(a, b) == BitOrFrom(a, b, 0)
BitAnd(a, b) == BitAndFrom(a, b, 0)

\* cells holds the mask of cell (x, y) at position y * width + x, counted from 0
createBrailleCanvas(width, height) ==
  [width |-> Max(0, width), height |-> Max(0, height),
   cells |-> [i \in 1..(Max(0, width) * Max(0, height)) |-> 0]]

isInsideCanvas(cv, x, y) == x >= 0 /\ y >= 0 /\ x < cv.width /\ y < cv.height

CellAt(cv, x, y) == cv.cells[y * cv.width + x + 1]

addCanvasMask(cv, x, y, mask) ==
  IF ~isInsideCanvas(cv, x, y) THEN cv
  ELSE [cv EXCEPT !.cells[y * cv.width + x + 1] = BitOr(@, mask)]

\* variant: the two horizontal direction bits are exchanged
connectCanvasCells_Mirrored(cv, x0, y0, x1, y1) ==
  IF ~isInsideCanvas(cv, x0, y0) \/ ~isInsideCanvas(cv, x1, y1) THEN cv
  ELSE IF x1 = x0 + 1 /\ y1 = y0
  THEN addCanvasMask(addCanvasMask(cv, x0, y0, kDirLeft), x1, y1, kDirRight)
  ELSE IF x1 = x0 - 1 /\ y1 = y0
  THEN addCanvasMask(addCanvasMask(cv, x0, y0, kDirRight), x1, y1, kDirLeft)
  ELSE IF x1 = x0 /\ y1 = y0 + 1
  THEN addCanvasMask(addCanvasMask(cv, x0, y0, kDirDown), x1, y1, kDirUp)
  ELSE IF x1 = x0 /\ y1 = y0 - 1
  THEN addCanvasMask(addCanvasMask(cv, x0, y0, kDirUp), x1, y1, kDirDown)
  ELSE cv

connectCanvasCells(cv, x0, y0, x1, y1) ==
  IF ~isInsideCanvas(cv, x0, y0) \/ ~isInsideCanvas(cv, x1, y1) THEN cv
  ELSE IF x1 = x0 + 1 /\ y1 = y0
  THEN addCanvasMask(addCanvasMask(cv, x0, y0, kDirRight), x1, y1, kDirLeft)
  ELSE IF x1 = x0 - 1 /\ y1 = y0
  THEN addCanvasMask(addCanvasMask(cv, x0, y0, kDirLeft), x1, y1, kDirRight)
  ELSE IF x1 = x0 /\ y1 = y0 + 1
  THEN addCanvasMask(addCanvasMask(cv, x0, y0, kDirDown), x1, y1, kDirUp)
  ELSE IF x1 = x0 /\ y1 = y0 - 1
  THEN addCanvasMask(addCanvasMask(cv, x0, y0, kDirUp), x1, y1, kDirDown)
  ELSE cv

\* the while (true) loop of rasterizeBrailleLine from the position (x, y)
RECURSIVE LineLoop(_, _, _, _, _, _, _, _, _, _)
LineLoop(cv, x, y, error, x1, y1, dx, dy, sx, sy) ==
  IF x = x1 /\ y = y1 THEN cv
  ELSE LET twice_error == error * 2
           moved_x == twice_error > -dy
           moved_y == twice_error < dx
           nx == IF moved_x THEN x + sx ELSE x
           ny == IF moved_y THEN y + sy ELSE y
           nerror == error - (IF moved_x THEN dy ELSE 0) + (IF moved_y THEN dx ELSE 0)
           joined == IF moved_x /\ moved_y
                     THEN connectCanvasCells(connectCanvasCells(cv, x, y, nx, y), nx, y, nx, ny)
                     ELSE connectCanvasCells(cv, x, y, nx, ny)
       IN LineLoop(addCanvasMask(joined, nx, ny, kDirPoint), nx, ny, nerror, x1, y1, dx, dy, sx, sy)

\* the cells the loop of rasterizeBrailleLine goes through from the position (x, y): one
\* record per iteration with the cell stepped to and, for a diagonal step, the elbow cell
RECURSIVE LineSteps(_, _, _, _, _, _, _, _, _)
LineSteps(x, y, error, x1, y1, dx, dy, sx, sy) ==
  IF x = x1 /\ y = y1 THEN <<>>
  ELSE LET twice_error == error * 2
           moved_x == twice_error > -dy
           moved_y == twice_error < dx
           nx == IF moved_x THEN x + sx ELSE x
           ny == IF moved_y THEN y + sy ELSE y
           nerror == error - (IF moved_x THEN dy ELSE 0) + (IF moved_y THEN dx ELSE 0)
       IN <<[x |-> nx, y |-> ny, diagonal |-> moved_x /\ moved_y, elbow_x |-> nx, elbow_y |-> y]>>
            \o LineSteps(nx, ny, nerror, x1, y1, dx, dy, sx, sy)

\* variant: the starting cell is not marked as a point
rasterizeBrailleLine_NoStartPoint(cv, x0, y0, x1, y1) ==
  IF ~isInsideCanvas(cv, x0, y0) \/ ~isInsideCanvas(cv, x1, y1) THEN cv
  ELSE LineLoop(cv, x0, y0, Abs(x1 - x0) - Abs(y1 - y0), x1, y1,
                Abs(x1 - x0), Abs(y1 - y0), IF x0 < x1 THEN 1 ELSE -1, IF y0 < y1 THEN 1 ELSE -1)

rasterizeBrailleLine(cv, x0, y0, x1, y1) ==
  IF ~isInsideCanvas(cv, x0, y0) \/ ~isInsideCanvas(cv, x1, y1) THEN cv
  ELSE LineLoop(addCanvasMask(cv, x0, y0, kDirPoint), x0, y0, Abs(x1 - x0) - Abs(y1 - y0), x1, y1,
                Abs(x1 - x0), Abs(y1 - y0), IF x0 < x1 THEN 1 ELSE -1, IF y0 < y1 THEN 1 ELSE -1)

RatSub(a, b) == Rat(a[1] * b[2] - b[1] * a[2], a[2] * b[2])
RatMul(a, b) == Rat(a[1] * b[1], a[2] * b[2])
RatDiv(a, b) == Rat(a[1] * b[2], a[2] * b[1])

\* the lambda valueToPixelYTop
valueToPixelYTop(value, min_value, max_value, graph_h) ==
  LET clamped == RatMax(min_value, RatMin(max_value, value))
      normalized == RatDiv(RatSub(clamped, min_value), RatSub(max_value, min_value))
      scaled == RatMul(normalized, Num(graph_h - 1))
      y_from_bottom == RoundDiv(scaled[1], scaled[2])
      y_top == (graph_h - 1) - y_from_bottom
  IN Max(0, Min(graph_h - 1, y_top))

\* the lambda sampleToPixelX
sampleToPixelX(sample_index, sample_count, graph_w) ==
  IF sample_count <= 1 THEN 0 ELSE (sample_index * (graph_w - 1)) \div (sample_count - 1)

\* the for loop of plotBrailleSeries over its first n segments
RECURSIVE PlotSegments(_, _, _, _, _, _, _)
PlotSegments(cv, values, min_value, max_value, sample_count, start_index, n) ==
  IF n = 0 THEN cv
  ELSE LET i == n - 1
           before == PlotSegments(cv, values, min_value, max_value, sample_count, start_index, n - 1)
       IN rasterizeBrailleLine(before,
            sampleToPixelX(i, sample_count, cv.width),
            valueToPixelYTop(values[start_index + i + 1], min_value, max_value, cv.height),
            sampleToPixelX(i + 1, sample_count, cv.width),
            valueToPixelYTop(values[start_index + i + 2], min_value, max_value, cv.height))

plotBrailleSeries(cv, values, min_value, max_value) ==
  IF cv.width <= 0 \/ cv.height <= 0 \/ values = <<>> THEN cv
  ELSE IF RatLeq(max_value, min_value) THEN cv
  ELSE LET sample_count == Min(Len(values), cv.width)
           start_index == Len(values) - sample_count
       IN IF sample_count = 1
          THEN addCanvasMask(cv, sampleToPixelX(0, sample_count, cv.width),
                             valueToPixelYTop(values[start_index + 1], min_value, max_value, cv.height),
                             kDirPoint)
          ELSE addCanvasMask(
                 PlotSegments(cv, values, min_value, max_value, sample_count, start_index, sample_count - 1),
                 sampleToPixelX(sample_count - 1, sample_count, cv.width),
                 valueToPixelYTop(values[Len(values)], min_value, max_value, cv.height),
                 kDirPoint)

\* the characters glyphForMask returns, as code points
GLYPH_space == 32               \* L' '
GLYPH_middle_dot == 183         \* L'·'
GLYPH_horizontal == 9472        \* L'─'
GLYPH_vertical == 9474          \* L'│'
GLYPH_down_right == 9484        \* L'┌'
GLYPH_down_left == 9488         \* L'┐'
GLYPH_up_right == 9492          \* L'└'
GLYPH_up_left == 9496           \* L'┘'
GLYPH_vertical_right == 9500    \* L'├'
GLYPH_vertical_left == 9508     \* L'┤'
GLYPH_down_horizontal == 9516   \* L'┬'
GLYPH_up_horizontal == 9524     \* L'┴'
GLYPH_cross == 9532             \* L'┼'

glyphForMask(mask) ==
  LET dirs == BitAnd(mask, BitOr(BitOr(kDirUp, kDirDown), BitOr(kDirLeft, kDirRight)))
  IN IF dirs = 0 THEN (IF BitAnd(mask, kDirPoint) # 0 THEN GLYPH_middle_dot ELSE GLYPH_space)
     ELSE IF dirs = kDirLeft + kDirRight THEN GLYPH_horizontal
     ELSE IF dirs = kDirUp + kDirDown THEN GLYPH_vertical
     ELSE IF dirs = kDirDown + kDirRight THEN GLYPH_down_right
     ELSE IF dirs = kDirDown + kDirLeft THEN GLYPH_down_left
     ELSE IF dirs = kDirUp + kDirRight THEN GLYPH_up_right
     ELSE IF dirs = kDirUp + kDirLeft THEN GLYPH_up_left
     ELSE IF dirs = kDirUp + kDirDown + kDirRight THEN GLYPH_vertical_right
     ELSE IF dirs = kDirUp + kDirDown + kDirLeft THEN GLYPH_vertical_left
     ELSE IF dirs = kDirLeft + kDirRight + kDirDown THEN GLYPH_down_horizontal
     ELSE IF dirs = kDirLeft + kDirRight + kDirUp THEN GLYPH_up_horizontal
     ELSE IF dirs = kDirUp + kDirDown + kDirLeft + kDirRight THEN GLYPH_cross
     ELSE IF BitAnd(dirs, kDirLeft + kDirRight) # 0 THEN GLYPH_horizontal
     ELSE GLYPH_vertical

\* the graph area of the window, cell by cell: the character and the colour pair
BlankArea(width, height) == [i \in 1..(width * height) |-> [glyph |-> GLYPH_space, pair |-> 0]]

\* a cell with an all-zero mask is skipped and keeps what the window held
drawBrailleLayer(area, cv, color_pair) ==
  IF cv.width <= 0 \/ cv.height <= 0 \/ cv.cells = <<>> THEN area
  ELSE [i \in 1..Len(area) |->
          IF cv.cells[i] = 0 THEN area[i]
          ELSE [glyph |-> glyphForMask(cv.cells[i]), pair |-> color_pair]]

\* values a history series holds
PlotValues == {Num(0), Num(50), Num(100), Rat(100, 3)}

NoCanvas == [pc |-> "off", op |-> "none", x0 |-> 0, y0 |-> 0, x1 |-> 0, y1 |-> 0, values |-> <<>>,
             canvas |-> createBrailleCanvas(0, 0), area |-> <<>>,
             history |-> MetricsHistory0, has_colors |-> FALSE, layers |-> <<>>]

\* a fresh canvas and either a line to rasterize or a series to plot on the 0..100 scale
InitBraille ==
  \E w \in 1..MaxCanvasW, h \in 1..MaxCanvasH :
    \/ \E x0 \in -1..w, y0 \in -1..h, x1 \in -1..w, y1 \in -1..h :
         canvas = [NoCanvas EXCEPT !.pc = "draw", !.op = "line", !.x0 = x0, !.y0 = y0, !.x1 = x1, !.y1 = y1,
                                   !.canvas = createBrailleCanvas(w, h), !.area = BlankArea(w, h)]
    \/ \E values \in SeqsUpTo(PlotValues, MaxSamples) :
         canvas = [NoCanvas EXCEPT !.pc = "draw", !.op = "plot", !.values = values,
                                   !.canvas = createBrailleCanvas(w, h), !.area = BlankArea(w, h)]

\* rasterizeBrailleLine on the canvas, then drawBrailleLayer
RasterizeLine ==
  /\ canvas.pc = "draw" /\ canvas.op = "line"
  /\ LET drawn == rasterizeBrailleLine(canvas.canvas, canvas.x0, canvas.y0, canvas.x1, canvas.y1)
     IN canvas' = [canvas EXCEPT !.pc = "drawn", !.canvas = drawn,
                                 !.area = drawBrailleLayer(canvas.area, drawn, 4)]
  /\ UNCHANGED <<samplerVars, gpuVars, historyVars, layoutVars, mainVars, thermalVars, pickVars, sensorsVars>>

\* plotBrailleSeries on the canvas as renderHistoryPanel calls it, then drawBrailleLayer
PlotSeries ==
  /\ canvas.pc = "draw" /\ canvas.op = "plot"
  /\ LET drawn == plotBrailleSeries(canvas.canvas, canvas.values, Num(0), Num(100))
     IN canvas' = [canvas EXCEPT !.pc = "drawn", !.canvas = drawn,
                                 !.area = drawBrailleLayer(canvas.area, drawn, 4)]
  /\ UNCHANGED <<samplerVars, gpuVars, historyVars, layoutVars, mainVars, thermalVars, pickVars, sensorsVars>>

\* the graph area of the history panel before the layers: the three rules of the grid,
\* drawn with ACS_HLINE on the top, the middle and the bottom row
GridArea(width, height) ==
  [i \in 1..(width * height) |->
     IF (i - 1) \div width \in {0, height \div 2, height - 1}
     THEN [glyph |-> GLYPH_space, pair |-> 0, grid |-> "ACS_HLINE"]
     ELSE [glyph |-> GLYPH_space, pair |-> 0]]

\* the six plotBrailleSeries calls: one fresh canvas per series
GraphCanvases(series, graph_w, graph_h) ==
  [s \in Series |-> plotBrailleSeries(createBrailleCanvas(graph_w, graph_h), series[s], Num(0), Num(100))]

\* variant: the CPU layer is drawn first instead of last
GraphDrawOrder_CpuFirst ==
  << <<"cpu_usage", 4>>, <<"disk_usage", 6>>, <<"ram_usage", 2>>, <<"cpu_temp", 3>>, <<"gpu_usage", 1>>,
     <<"gpu_vram_usage", 5>> >>

\* the six drawBrailleLayer calls in program order: the series and its colour pair
GraphDrawOrder ==
  << <<"disk_usage", 6>>, <<"ram_usage", 2>>, <<"cpu_temp", 3>>, <<"gpu_usage", 1>>, <<"gpu_vram_usage", 5>>,
     <<"cpu_usage", 4>> >>

\* the first n drawBrailleLayer calls; without colours no colour pair is switched on
RECURSIVE DrawLayers(_, _, _, _)
DrawLayers(area, cells, has_colors, n) ==
  IF n = 0 THEN area
  ELSE drawBrailleLayer(DrawLayers(area, cells, has_colors, n - 1), cells[GraphDrawOrder[n][1]],
                        IF has_colors THEN GraphDrawOrder[n][2] ELSE 0)

\* the trend graph of renderHistoryPanel
renderHistoryGraph(series, has_colors, graph_w, graph_h) ==
  LET cells == GraphCanvases(series, graph_w, graph_h)
  IN [layers |-> cells, area |-> DrawLayers(GridArea(graph_w, graph_h), cells, has_colors, Len(GraphDrawOrder))]

\* a series of n samples: constant 0, constant 100, or rising from 0 to 100
GraphShapes(n) ==
  { [i \in 1..n |-> Num(0)], [i \in 1..n |-> Num(100)],
    [i \in 1..n |-> IF n = 1 THEN Num(50) ELSE Rat(100 * (i - 1), n - 1)] }

\* the histories after n polls: six series of n samples each
GraphHistories == UNION {[Series -> GraphShapes(n)] : n \in 1..MaxSamples}

InitGraph ==
  \E h \in GraphHistories, has_colors \in BOOLEAN :
    canvas = [NoCanvas EXCEPT !.pc = "draw", !.op = "graph", !.history = h, !.has_colors = has_colors,
                              !.canvas = createBrailleCanvas(MaxCanvasW, MaxCanvasH),
                              !.area = GridArea(MaxCanvasW, MaxCanvasH)]

\* the graph part of renderHistoryPanel
RenderHistoryGraph ==
  /\ canvas.pc = "draw" /\ canvas.op = "graph"
  /\ LET drawn == renderHistoryGraph(canvas.history, canvas.has_colors, canvas.canvas.width,
                                     canvas.canvas.height)
     IN canvas' = [canvas EXCEPT !.pc = "drawn", !.layers = drawn.layers, !.area = drawn.area]
  /\ UNCHANGED <<samplerVars, gpuVars, historyVars, layoutVars, mainVars, thermalVars, pickVars, sensorsVars>>

(***************************************************************************)
(* Disk busy sampler: computeRootDiskBusyPercent                           *)
(***************************************************************************)
\* the statics before the first call; root_numbers is set once, from stat("/")
DiskBusyState0 == [root_numbers |-> Some(<<8, 1>>), previous_io_ms |-> None]

\* one call: io is the io-time field of the root device in /proc/diskstats, if it
\* can be read, and elapsed_ms the steady-clock time since the stored previous_time
computeRootDiskBusyPercent(st, io, elapsed_ms) ==
  IF ~HasValue(st.root_numbers) THEN [state |-> st, result |-> None]
  ELSE IF ~HasValue(io) THEN [state |-> st, result |-> None]
  ELSE IF ~HasValue(st.previous_io_ms)
  THEN [state |-> [st EXCEPT !.previous_io_ms = io], result |-> None]
  ELSE LET delta_ms == ValueOf(io) - ValueOf(st.previous_io_ms)
       IN [state |-> [st EXCEPT !.previous_io_ms = io],
           result |-> IF elapsed_ms <= 0 \/ delta_ms < 0 THEN None
                      ELSE Some(clampPercent(Rat(100 * delta_ms, elapsed_ms)))]

(***************************************************************************)
(* CPU temperature: normalizeTemperatureC, collectCpuTemperature           *)
(***************************************************************************)
STR_cpu == <<99, 112, 117>>    \* "cpu"
STR_package == <<112, 97, 99, 107, 97, 103, 101>>    \* "package"
STR_x86_pkg_temp == <<120, 56, 54, 95, 112, 107, 103, 95, 116, 101, 109, 112>>    \* "x86_pkg_temp"
STR_tctl == <<116, 99, 116, 108>>    \* "tctl"
STR_tdie == <<116, 100, 105, 101>>    \* "tdie"
STR_die == <<100, 105, 101>>    \* "die"
STR_k10temp == <<107, 49, 48, 116, 101, 109, 112>>    \* "k10temp"
STR_coretemp == <<99, 111, 114, 101, 116, 101, 109, 112>>    \* "coretemp"
STR_zenpower == <<122, 101, 110, 112, 111, 119, 101, 114>>    \* "zenpower"
STR_acpitz == <<97, 99, 112, 105, 116, 122>>    \* "acpitz"
STR_Package_id_0 == <<80, 97, 99, 107, 97, 103, 101, 32, 105, 100, 32, 48>>    \* "Package id 0"
STR_nvme == <<110, 118, 109, 101>>    \* "nvme"
STR_Composite == <<67, 111, 109, 112, 111, 115, 105, 116, 101>>    \* "Composite"
STR_empty == <<>>    \* ""
STR_nct6775 == <<110, 99, 116, 54, 55, 55, 53>>    \* "nct6775"
STR_CPUTIN == <<67, 80, 85, 84, 73, 78>>    \* "CPUTIN"

\* variant: an out-of-range value is limited to the range instead of rejected
normalizeTemperatureC_Clamped(raw_value) ==
  LET celsius == IF Abs(raw_value) > 1000 THEN Rat(raw_value, 1000) ELSE Num(raw_value)
  IN Some(RatMax(Num(0), RatMin(Num(150), celsius)))

normalizeTemperatureC(raw_value) ==
  LET celsius == IF Abs(raw_value) > 1000 THEN Rat(raw_value, 1000) ELSE Num(raw_value)
  IN IF RatLess(celsius, Num(0)) \/ RatLess(Num(150), celsius) THEN None ELSE Some(celsius)

hwmonNameLooksCpuSensor(lower_name) ==
  \/ Contains(lower_name, STR_k10temp) \/ Contains(lower_name, STR_coretemp)
  \/ Contains(lower_name, STR_zenpower) \/ Contains(lower_name, STR_cpu)

hwmonLabelLooksCpuTemp(lower_label) ==
  \/ Contains(lower_label, STR_cpu) \/ Contains(lower_label, STR_package)
  \/ Contains(lower_label, STR_tctl) \/ Contains(lower_label, STR_tdie)
  \/ Contains(lower_label, STR_die)

\* the test on the type of a thermal zone
ZoneTypePreferred(type) ==
  \/ Contains(type, STR_cpu) \/ Contains(type, STR_package) \/ Contains(type, STR_x86_pkg_temp)
  \/ Contains(type, STR_tctl) \/ Contains(type, STR_tdie)

\* variant: the first reading is kept whatever comes later
RaiseMax_KeepsFirst(max, celsius) ==
  IF ~HasValue(max) THEN Some(celsius) ELSE max

\* "if (!max || *celsius > *max) max = *celsius"
RaiseMax(max, celsius) ==
  IF ~HasValue(max) \/ RatLess(ValueOf(max), celsius) THEN Some(celsius) ELSE max

NoMax == [preferred_max |-> None, fallback_max |-> None]

\* a thermal_zone* directory: its temp file, if readable, and its type file
Zone(raw, type) == [raw |-> raw, type |-> type]

\* a temp*_input file of a hwmon chip: its content, if readable, and its label file
Sensor(raw, label) == [raw |-> raw, label |-> label]

\* a hwmon directory: its name file and its temp*_input files in directory order
Chip(name, sensors) == [name |-> name, sensors |-> sensors]

\* the loop over the thermal zones, in directory order
RECURSIVE ScanZones(_, _)
ScanZones(zones, n) ==
  IF n = 0 THEN NoMax
  ELSE LET acc == ScanZones(zones, n - 1)
           zone == zones[n]
           celsius == IF HasValue(zone.raw) THEN normalizeTemperatureC(ValueOf(zone.raw)) ELSE None
       IN IF ~HasValue(celsius) THEN acc
          ELSE IF ZoneTypePreferred(toLower(zone.type))
          THEN [acc EXCEPT !.preferred_max = RaiseMax(@, ValueOf(celsius))]
          ELSE [acc EXCEPT !.fallback_max = RaiseMax(@, ValueOf(celsius))]

\* the inner loop over the temp*_input files of one chip
RECURSIVE ScanSensors(_, _, _, _)
ScanSensors(acc, cpu_chip, sensors, n) ==
  IF n = 0 THEN acc
  ELSE LET before == ScanSensors(acc, cpu_chip, sensors, n - 1)
           sensor == sensors[n]
           celsius == IF HasValue(sensor.raw) THEN normalizeTemperatureC(ValueOf(sensor.raw)) ELSE None
       IN IF ~HasValue(celsius) THEN before
          ELSE IF hwmonLabelLooksCpuTemp(toLower(sensor.label))
          THEN [before EXCEPT !.preferred_max = RaiseMax(@, ValueOf(celsius))]
          ELSE IF cpu_chip
          THEN [before EXCEPT !.fallback_max = RaiseMax(@, ValueOf(celsius))]
          ELSE before

\* the outer loop over the hwmon directories
RECURSIVE ScanChips(_, _)
ScanChips(chips, n) ==
  IF n = 0 THEN NoMax
  ELSE LET chip == chips[n]
       IN ScanSensors(ScanChips(chips, n - 1), hwmonNameLooksCpuSensor(toLower(chip.name)),
                      chip.sensors, Len(chip.sensors))

collectCpuTemperatureFromHwmon(chips) ==
  LET found == ScanChips(chips, Len(chips))
  IN IF HasValue(found.preferred_max) THEN found.preferred_max ELSE found.fallback_max

\* env: the thermal zones and the hwmon chips of the machine
collectCpuTemperature(env) ==
  LET found == ScanZones(env.zones, Len(env.zones))
  IN IF HasValue(found.preferred_max) THEN found.preferred_max
     ELSE IF HasValue(found.fallback_max) THEN found.fallback_max
     ELSE collectCpuTemperatureFromHwmon(env.hwmon)

NoSensors == [zones |-> <<>>, hwmon |-> <<>>]

\* raw readings a temp file may hold: every small value, and around every whole degree
\* of the millidegree convention
TempRaws ==
  (-MaxSmallRaw..MaxSmallRaw)
    \cup {1000 * k + r : k \in (-MaxDegrees)..MaxDegrees, r \in {0, 1, 999}}

ThermalZones ==
  { Zone(Some(60000), STR_x86_pkg_temp), Zone(Some(45), STR_acpitz), Zone(Some(151000), STR_x86_pkg_temp),
    Zone(None, STR_acpitz), Zone(Some(-5000), STR_acpitz), Zone(Some(72), STR_cpu) }

HwmonChips ==
  { Chip(STR_coretemp, <<Sensor(Some(70000), STR_Package_id_0), Sensor(Some(72000), STR_empty)>>),
    Chip(STR_nvme, <<Sensor(Some(40000), STR_Composite)>>),
    Chip(STR_k10temp, <<Sensor(Some(1000), STR_tctl), Sensor(Some(55500), STR_empty)>>),
    Chip(STR_nct6775, <<Sensor(Some(45000), STR_CPUTIN), Sensor(Some(30000), STR_empty)>>) }

ThermalEnvs == [zones : SeqsUpTo(ThermalZones, MaxZones), hwmon : SeqsUpTo(HwmonChips, MaxChips)]

NoTemp == [pc |-> "off", raw_value |-> 0, env |-> NoSensors, celsius |-> None, temperature_c |-> None]

InitTemp ==
  \/ \E raw_value \in TempRaws : thermal = [NoTemp EXCEPT !.pc = "normalize", !.raw_value = raw_value]
  \/ \E env \in ThermalEnvs : thermal = [NoTemp EXCEPT !.pc = "collect", !.env = env]

\* one call of normalizeTemperatureC
NormalizeTemperature ==
  /\ thermal.pc = "normalize"
  /\ thermal' = [thermal EXCEPT !.pc = "normalized", !.celsius = normalizeTemperatureC(thermal.raw_value)]
  /\ UNCHANGED <<samplerVars, gpuVars, historyVars, layoutVars, mainVars, brailleVars, pickVars, sensorsVars>>

\* one call of collectCpuTemperature
CollectCpuTemperature ==
  /\ thermal.pc = "collect"
  /\ thermal' = [thermal EXCEPT !.pc = "collected", !.temperature_c = collectCpuTemperature(thermal.env)]
  /\ UNCHANGED <<samplerVars, gpuVars, historyVars, layoutVars, mainVars, brailleVars, pickVars, sensorsVars>>

(***************************************************************************)
(* Sensors text fallback: collectSensorsFallbackMetrics                    *)
(***************************************************************************)
STR_rpm == <<114, 112, 109>>    \* "rpm"
STR_fan == <<102, 97, 110>>    \* "fan"
STR_pump == <<112, 117, 109, 112>>    \* "pump"
STR_gpu == <<103, 112, 117>>    \* "gpu"
STR_ppt == <<112, 112, 116>>    \* "ppt"
STR_svi2 == <<115, 118, 105, 50>>    \* "svi2"
STR_socket == <<115, 111, 99, 107, 101, 116>>    \* "socket"
STR_fam15h_power == <<102, 97, 109, 49, 53, 104, 95, 112, 111, 119, 101, 114>>    \* "fam15h_power"
STR_rapl == <<114, 97, 112, 108>>    \* "rapl"
STR_nouveau == <<110, 111, 117, 118, 101, 97, 117>>    \* "nouveau"
STR_nct == <<110, 99, 116>>    \* "nct"
STR_it == <<105, 116>>    \* "it"
STR_f718 == <<102, 55, 49, 56>>    \* "f718"
STR_w83 == <<119, 56, 51>>    \* "w83"
STR_asus == <<97, 115, 117, 115>>    \* "asus"
STR_gigabyte == <<103, 105, 103, 97, 98, 121, 116, 101>>    \* "gigabyte"
LINE_nct6775 == <<110, 99, 116, 54, 55, 55, 53, 45, 105, 115, 97, 45, 48, 50, 57, 48>>    \* "nct6775-isa-0290"
LINE_amdgpu == <<97, 109, 100, 103, 112, 117, 45, 112, 99, 105, 45, 48, 51, 48, 48>>    \* "amdgpu-pci-0300"
LINE_k10temp == <<107, 49, 48, 116, 101, 109, 112, 45, 112, 99, 105, 45, 48, 48, 99, 51>>    \* "k10temp-pci-00c3"
LINE_fan1 == <<102, 97, 110, 49, 58, 32, 32, 32, 32, 32, 32, 32, 32, 49, 50, 48, 48, 32, 82, 80, 77>>    \* "fan1:        1200 RPM"
LINE_cpu_fan == <<67, 80, 85, 32, 70, 97, 110, 58, 32, 32, 32, 32, 32, 49, 53, 48, 48, 32, 82, 80, 77>>    \* "CPU Fan:     1500 RPM"
LINE_pump == <<80, 117, 109, 112, 58, 32, 32, 32, 32, 32, 32, 32, 32, 50, 48, 48, 48, 32, 82, 80, 77>>    \* "Pump:        2000 RPM"
LINE_gpu_fan == <<71, 80, 85, 32, 102, 97, 110, 58, 32, 32, 32, 32, 32, 32, 57, 48, 48, 32, 82, 80, 77>>    \* "GPU fan:      900 RPM"
LINE_chassis_fan == <<67, 104, 97, 115, 115, 105, 115, 32, 70, 97, 110, 58, 32, 32, 56, 48, 48, 32, 82, 80, 77>>    \* "Chassis Fan:  800 RPM"
LINE_ppt == <<80, 80, 84, 58, 32, 32, 32, 32, 32, 32, 32, 32, 32, 32, 51, 53, 46, 53, 48, 32, 87>>    \* "PPT:          35.50 W"
LINE_power1 == <<112, 111, 119, 101, 114, 49, 58, 32, 32, 32, 32, 32, 32, 50, 48, 46, 48, 48, 32, 87>>    \* "power1:      20.00 W"
LINE_stopped == <<32, 32, 102, 97, 110, 50, 58, 32, 32, 32, 32, 32, 32, 32, 32, 32, 32, 48, 32, 82, 80, 77>>    \* "  fan2:          0 RPM"

IsDigit(c) == c >= 48 /\ c <= 57

\* \s of the regular expressions
IsSpace(c) == c \in {32, 9, 10, 11, 12, 13}

\* \w of the regular expressions
IsWordChar(c) == IsDigit(c) \/ (c >= 65 /\ c <= 90) \/ (c >= 97 /\ c <= 122) \/ c = 95

trim(input) ==
  LET kept == {i \in 1..Len(input) : input[i] \notin {32, 9, 13, 10}}
  IN IF kept = {} THEN <<>>
     ELSE SubSeq(input, CHOOSE i \in kept : \A j \in kept : i <= j, CHOOSE i \in kept : \A j \in kept : j <= i)

startsWith(text, prefix) == Len(prefix) <= Len(text) /\ SubSeq(text, 1, Len(prefix)) = prefix

\* the last position of the run of digits that starts at position i
DigitRunEnd(text, i) ==
  CHOOSE j \in i..Len(text) :
    /\ \A k \in i..j : IsDigit(text[k])
    /\ j = Len(text) \/ ~IsDigit(text[j + 1])

RECURSIVE DecimalValue(_)
DecimalValue(digits) ==
  IF digits = <<>> THEN 0
  ELSE 10 * DecimalValue(SubSeq(digits, 1, Len(digits) - 1)) + (digits[Len(digits)] - 48)

RECURSIVE Pow10(_)
Pow10(n) == IF n = 0 THEN 1 ELSE 10 * Pow10(n - 1)

\* std::stod of the match from i to last, whose whole part ends at whole_end
NumberFrom(text, i, whole_end, last) ==
  [last |-> last,
   value |-> IF last > whole_end
             THEN Rat(DecimalValue(SubSeq(text, i, whole_end)) * Pow10(last - whole_end - 1)
                        + DecimalValue(SubSeq(text, whole_end + 2, last)),
                      Pow10(last - whole_end - 1))
             ELSE Num(DecimalValue(SubSeq(text, i, whole_end)))]

\* the end of the match when the whole part ends at whole_end: a fraction is a point
\* followed by digits
FractionEnd(text, whole_end) ==
  IF whole_end + 2 <= Len(text) /\ text[whole_end + 1] = 46 /\ IsDigit(text[whole_end + 2])
  THEN DigitRunEnd(text, whole_end + 2)
  ELSE whole_end

\* what [0-9]+(?:\.[0-9]+)? matches from the digit at position i, and its value
NumberAt(text, i) == NumberFrom(text, i, DigitRunEnd(text, i), FractionEnd(text, DigitRunEnd(text, i)))

\* regex_search finds the leftmost match
extractFirstNumber(input) ==
  LET digits == {i \in 1..Len(input) : IsDigit(input[i])}
  IN IF digits = {} THEN None
     ELSE Some(NumberAt(input, CHOOSE i \in digits : \A j \in digits : i <= j).value)

\* the first position from p on that holds no white space
SkipSpaces(text, p) ==
  CHOOSE q \in p..(Len(text) + 1) :
    /\ \A k \in p..(q - 1) : IsSpace(text[k])
    /\ q = Len(text) + 1 \/ ~IsSpace(text[q])

\* ([mM]?) matches at the position of the unit
MilliAt(text, unit_at) == unit_at <= Len(text) /\ text[unit_at] \in {109, 77}

\* [Ww]\b matches at position w_at
WattAt(text, w_at) ==
  /\ w_at <= Len(text)
  /\ text[w_at] \in {119, 87}
  /\ w_at = Len(text) \/ ~IsWordChar(text[w_at + 1])

\* the rest of the match after the number and the white space behind it
WattsMatchFrom(text, number, unit_at) ==
  [matched |-> WattAt(text, IF MilliAt(text, unit_at) THEN SkipSpaces(text, unit_at + 1) ELSE unit_at),
   value |-> number.value, milli |-> MilliAt(text, unit_at)]

\* the attempt to match ([0-9]+(?:\.[0-9]+)?)\s*([mM]?)\s*[Ww]\b from the digit at i
WattsMatchAt(text, i) ==
  WattsMatchFrom(text, NumberAt(text, i), SkipSpaces(text, NumberAt(text, i).last + 1))

\* the wattage of a match: milliwatts are divided by 1000, values outside (0, 2000] are dropped
WattsOf(found) ==
  LET watts == IF found.milli THEN RatDiv(found.value, Num(1000)) ELSE found.value
  IN IF RatLeq(watts, Num(0)) \/ RatLess(Num(2000), watts) THEN None ELSE Some(watts)

\* regex_search finds the leftmost match
extractWattsFromText(input) ==
  LET starts == {i \in 1..Len(input) : IsDigit(input[i]) /\ WattsMatchAt(input, i).matched}
  IN IF starts = {} THEN None
     ELSE WattsOf(WattsMatchAt(input, CHOOSE i \in starts : \A j \in starts : i <= j))

lineHasToken(lower_text, token) == Contains(lower_text, token)

hwmonNameLooksBoardSensor(lower_name) ==
  \/ startsWith(lower_name, STR_nct) \/ startsWith(lower_name, STR_it)
  \/ startsWith(lower_name, STR_f718) \/ startsWith(lower_name, STR_w83)
  \/ Contains(lower_name, STR_asus) \/ Contains(lower_name, STR_gigabyte)

hwmonNameLooksGpuSensor(lower_name) ==
  \/ Contains(lower_name, STR_amdgpu) \/ Contains(lower_name, STR_nvidia)
  \/ Contains(lower_name, STR_nouveau) \/ Contains(lower_name, STR_radeon)

\* 1 when the condition holds, else 0
When(condition) == IF condition THEN 1 ELSE 0

\* cpu_score and gpu_score of a line with an RPM value
FanScores(lower_line, chip_name) ==
  [cpu |-> 120 * When(lineHasToken(lower_line, STR_cpu)) + 10 * When(lineHasToken(lower_line, STR_fan))
             - 40 * When(lineHasToken(lower_line, STR_pump)) + 25 * When(hwmonNameLooksBoardSensor(chip_name))
             + 20 * When(hwmonNameLooksCpuSensor(chip_name)),
   gpu |-> 10 * When(lineHasToken(lower_line, STR_fan)) + 120 * When(lineHasToken(lower_line, STR_gpu))
             + 60 * When(hwmonNameLooksGpuSensor(chip_name))]

\* cpu_score and gpu_score of a line with a wattage
PowerScores(lower_line, chip_name) ==
  [cpu |-> 120 * When(\/ lineHasToken(lower_line, STR_cpu) \/ lineHasToken(lower_line, STR_package)
                      \/ lineHasToken(lower_line, STR_ppt) \/ lineHasToken(lower_line, STR_svi2)
                      \/ lineHasToken(lower_line, STR_socket))
             + 60 * When(\/ lineHasToken(chip_name, STR_k10temp) \/ lineHasToken(chip_name, STR_coretemp)
                         \/ lineHasToken(chip_name, STR_zenpower) \/ lineHasToken(chip_name, STR_fam15h_power)
                         \/ lineHasToken(chip_name, STR_rapl)),
   gpu |-> 120 * When(lineHasToken(lower_line, STR_gpu)) + 60 * When(hwmonNameLooksGpuSensor(chip_name))]

SensorsFallbackMetrics0 == [cpu_fan_rpm |-> None, cpu_power_w |-> None, gpu_fan_rpm |-> None, gpu_power_w |-> None]

\* the locals of collectSensorsFallbackMetrics before the loop
SensorsLocals0 ==
  [result |-> SensorsFallbackMetrics0, best_cpu_fan_score |-> -1, best_cpu_power_score |-> -1,
   best_gpu_fan_score |-> -1, best_gpu_power_score |-> -1, chip_name |-> <<>>]

\* lines 73-111: the RPM part of one iteration
TakeFan(at, lower_line) ==
  LET rpm == extractFirstNumber(lower_line)
      score == FanScores(lower_line, at.chip_name)
      cpu_wins == score.cpu > at.best_cpu_fan_score
      gpu_wins == score.gpu > at.best_gpu_fan_score
  IN IF ~lineHasToken(lower_line, STR_rpm) \/ ~HasValue(rpm) THEN at
     ELSE IF ~RatLess(Num(0), ValueOf(rpm)) THEN at
     ELSE [at EXCEPT !.best_cpu_fan_score = IF cpu_wins THEN score.cpu ELSE @,
                     !.result.cpu_fan_rpm = IF cpu_wins THEN rpm ELSE @,
                     !.best_gpu_fan_score = IF gpu_wins THEN score.gpu ELSE @,
                     !.result.gpu_fan_rpm = IF gpu_wins THEN rpm ELSE @]

\* variant: a line with an equal score replaces the one found before
TakePower_LastOfEqualsWins(at, lower_line) ==
  LET watts == extractWattsFromText(lower_line)
      score == PowerScores(lower_line, at.chip_name)
      cpu_wins == score.cpu >= at.best_cpu_power_score
      gpu_wins == score.gpu >= at.best_gpu_power_score
  IN IF ~HasValue(watts) THEN at
     ELSE [at EXCEPT !.best_cpu_power_score = IF cpu_wins THEN score.cpu ELSE @,
                     !.result.cpu_power_w = IF cpu_wins THEN watts ELSE @,
                     !.best_gpu_power_score = IF gpu_wins THEN score.gpu ELSE @,
                     !.result.gpu_power_w = IF gpu_wins THEN watts ELSE @]

\* lines 113-144: the wattage part of one iteration
TakePower(at, lower_line) ==
  LET watts == extractWattsFromText(lower_line)
      score == PowerScores(lower_line, at.chip_name)
      cpu_wins == score.cpu > at.best_cpu_power_score
      gpu_wins == score.gpu > at.best_gpu_power_score
  IN IF ~HasValue(watts) THEN at
     ELSE [at EXCEPT !.best_cpu_power_score = IF cpu_wins THEN score.cpu ELSE @,
                     !.result.cpu_power_w = IF cpu_wins THEN watts ELSE @,
                     !.best_gpu_power_score = IF gpu_wins THEN score.gpu ELSE @,
                     !.result.gpu_power_w = IF gpu_wins THEN watts ELSE @]

\* a line that names a chip: it starts in the first column and holds no colon
IsChipHeader(raw_line, line) ==
  /\ raw_line # <<>>
  /\ raw_line[1] # 32 /\ raw_line[1] # 9
  /\ \A i \in 1..Len(line) : line[i] # 58

\* the while loop over the first n lines of the output of the tool
RECURSIVE SensorsLoop(_, _)
SensorsLoop(output, n) ==
  IF n = 0 THEN SensorsLocals0
  ELSE LET at == SensorsLoop(output, n - 1)
           raw_line == output[n]
           line == trim(raw_line)
       IN IF line = <<>> THEN at
          ELSE IF IsChipHeader(raw_line, line) THEN [at EXCEPT !.chip_name = toLower(line)]
          ELSE TakePower(TakeFan(at, toLower(line)), toLower(line))

\* static Cache cache
SensorsCache0 == [last_read |-> 0, data |-> SensorsFallbackMetrics0, initialized |-> FALSE]

\* the age below which the cached data is returned, in milliseconds
CacheWindowMs == 900

\* variant: the cached data is still returned at the age of the window
CacheIsFresh_Inclusive(cache, now) ==
  cache.initialized /\ (now - cache.last_read) \div 1000 <= CacheWindowMs

\* lines 42-43; the clock counts microseconds and duration_cast truncates to milliseconds
CacheIsFresh(cache, now) ==
  cache.initialized /\ (now - cache.last_read) \div 1000 < CacheWindowMs

\* output: what the sensors tool prints if it is run by this call
collectSensorsFallbackMetrics(cache, now, output) ==
  IF CacheIsFresh(cache, now) THEN [cache |-> cache, result |-> cache.data, invoked |-> FALSE]
  ELSE LET result == SensorsLoop(output, Len(output)).result
       IN [cache |-> [last_read |-> now, data |-> result, initialized |-> TRUE],
           result |-> result, invoked |-> TRUE]

\* lines the sensors tool prints
SensorLines ==
  { LINE_nct6775, LINE_amdgpu, LINE_k10temp, LINE_fan1, LINE_cpu_fan, LINE_pump, LINE_gpu_fan,
    LINE_chassis_fan, LINE_ppt, LINE_power1, LINE_stopped }

SensorOutputs == SeqsUpTo(SensorLines, MaxLines)

\* what the tool prints at the calls of a timed run
TimedOutputs == {<<LINE_cpu_fan>>, <<LINE_nct6775, LINE_chassis_fan, LINE_power1>>}

\* the time between two calls, in microseconds
CallGaps == {1000, 450000, 899999, 900000}

NoSensorsCall ==
  [pc |-> "off", output |-> <<>>, now |-> 0, cache |-> SensorsCache0, calls |-> 0, invoked |-> FALSE,
   found |-> SensorsCache0, result |-> SensorsFallbackMetrics0, runs |-> 0, last_run |-> 0, prev_run |-> 0]

InitSensors ==
  \/ \E output \in SensorOutputs : sensors_call = [NoSensorsCall EXCEPT !.pc = "parse", !.output = output]
  \/ sensors_call = [NoSensorsCall EXCEPT !.pc = "timed"]

\* one call of collectSensorsFallbackMetrics with an empty cache on a given output
ParseSensors ==
  /\ sensors_call.pc = "parse"
  /\ LET called == collectSensorsFallbackMetrics(sensors_call.cache, sensors_call.now, sensors_call.output)
     IN sensors_call' = [sensors_call EXCEPT !.pc = "parsed", !.cache = called.cache, !.result = called.result,
                                   !.invoked = called.invoked, !.calls = 1, !.runs = 1]
  /\ UNCHANGED <<samplerVars, gpuVars, historyVars, layoutVars, mainVars, brailleVars, thermalVars, pickVars>>

\* the next call of collectSensorsFallbackMetrics of a run, some time after the one before
CallSensors ==
  /\ sensors_call.pc = "timed"
  /\ sensors_call.calls < MaxSensorCalls
  /\ \E gap \in CallGaps, output \in TimedOutputs :
       LET now == sensors_call.now + gap
           called == collectSensorsFallbackMetrics(sensors_call.cache, now, output)
       IN sensors_call' = [sensors_call EXCEPT !.now = now, !.found = sensors_call.cache, !.cache = called.cache,
                                     !.result = called.result, !.invoked = called.invoked,
                                     !.output = IF called.invoked THEN output ELSE @,
                                     !.calls = @ + 1,
                                     !.runs = IF called.invoked THEN @ + 1 ELSE @,
                                     !.prev_run = IF called.invoked THEN sensors_call.last_run ELSE @,
                                     !.last_run = IF called.invoked THEN now ELSE @]
  /\ UNCHANGED <<samplerVars, gpuVars, historyVars, layoutVars, mainVars, brailleVars, thermalVars, pickVars>>

(***************************************************************************)
(* The frame: estimate*Rows, createPanel, renderSnapshot                   *)
(***************************************************************************)
estimateCpuRows(snap) ==
  5 + (IF HasValue(snap.cpu.usage_percent) THEN 1 ELSE 0)
    + (IF HasValue(snap.cpu.temperature_c) THEN 1 ELSE 0)

estimateRamRows(snap) ==
  IF ~HasValue(snap.ram.total_kb) \/ ~HasValue(snap.ram.available_kb) \/ ValueOf(snap.ram.total_kb) <= 0
  THEN 1 ELSE 3

estimateGpuRows(snap) ==
  IF snap.gpus = <<>> THEN 2
  ELSE IF ~anyGpuHasTelemetry(snap.gpus) THEN Len(snap.gpus)
  ELSE LET display_gpu_index == pickDisplayGpuIndex(snap.gpus)
           gpu == snap.gpus[display_gpu_index + 1]
       IN 6 + (IF ~HasValue(gpu.memory_used_mib) THEN 1 ELSE 0)
            + (IF HasValue(gpu.utilization_percent) THEN 1 ELSE 0)
            + (IF HasValue(gpu.memory_utilization_percent) THEN 1 ELSE 0)
            + (IF countAdditionalRelevantGpus(snap.gpus, display_gpu_index) > 1 THEN 1 ELSE 0)

estimateDiskRows(snap) ==
  IF ~HasValue(snap.disk.total_bytes) \/ ~HasValue(snap.disk.free_bytes) \/ ValueOf(snap.disk.total_bytes) = 0
  THEN 2 ELSE 3

estimateHistoryRows == 12

Rect(y, x, h, w) == [y |-> y, x |-> x, h |-> h, w |-> w]

\* the WINDOW* createPanel returns: <<>> for nullptr, else the window newwin made
createPanel(rect, title) ==
  IF rect.h < 4 \/ rect.w < 20 THEN None ELSE Some([title |-> title, rect |-> rect])

\* variant: only the row count is tested
TooSmall_RowsOnly(rows, cols) == rows < 18

\* the test in front of the "Terminal too small" notice
TooSmall(rows, cols) == rows < 18 \/ cols < 80

\* variant: the preferred height is not limited to the content height
StackHeight_Unlimited(content_h, min_stack_h, pref_stack_h) == Max(min_stack_h, pref_stack_h)

\* const int stack_h
StackHeight(content_h, min_stack_h, pref_stack_h) == Min(content_h, Max(min_stack_h, pref_stack_h))

NoLayout == <<>>

NoFrame == [kind |-> "none", rows |-> 0, cols |-> 0, layout |-> NoLayout, windows |-> <<>>,
            deleted |-> <<>>, before |-> "none"]

\* the windows of seq that are not nullptr, as the "if (panel) delwin(panel)" blocks see them
Existing(wins) == SelectSeq(wins, LAMBDA win : HasValue(win))

\* one call with getmaxyx reporting rows x cols: what it computed, the windows it made
\* with newwin in creation order and the ones it handed to delwin
renderSnapshot(snap, rows, cols) ==
  IF TooSmall(rows, cols)
  THEN [NoFrame EXCEPT !.kind = "notice", !.rows = rows, !.cols = cols]
  ELSE LET top == 3
           gap == 1
           margin == 1
           content_w == cols - 2 * margin - gap
           left_w == content_w \div 2
           right_w == content_w - left_w
           x_left == margin
           x_right == x_left + left_w + gap
           content_h == rows - top - 2
           history_min_h == Max(6, estimateHistoryRows \div 2)
           min_panel_h == 4
           min_stack_h == min_panel_h * 2 + gap
           left_pref_top_h == estimateCpuRows(snap) + 2
           left_pref_bottom_h == estimateRamRows(snap) + 2
           right_pref_top_h == estimateGpuRows(snap) + 2
           right_pref_bottom_h == estimateDiskRows(snap) + 2
           pref_stack_h == Max(left_pref_top_h + gap + left_pref_bottom_h,
                               right_pref_top_h + gap + right_pref_bottom_h)
           stack_h == StackHeight(content_h, min_stack_h, pref_stack_h)
           remaining_h == content_h - stack_h
           has_history_panel == remaining_h >= history_min_h + gap
           history_h == IF has_history_panel THEN remaining_h - gap ELSE 0
           left == splitColumnHeights(stack_h, left_pref_top_h, left_pref_bottom_h, gap)
           right == splitColumnHeights(stack_h, right_pref_top_h, right_pref_bottom_h, gap)
           cpu_h == left.top_h
           ram_h == left.bottom_h
           gpu_h == right.top_h
           disk_h == right.bottom_h
           cpu_panel == createPanel(Rect(top, x_left, cpu_h, left_w), "CPU")
           ram_panel == createPanel(Rect(top + cpu_h + gap, x_left, ram_h, left_w), "RAM")
           gpu_panel == createPanel(Rect(top, x_right, gpu_h, right_w), "GPU")
           net_panel == createPanel(Rect(top + ram_h + gap, x_left, ram_h, left_w), "NET")
           disk_panel == createPanel(Rect(top + gpu_h + gap, x_right, disk_h, right_w), "Disk")
           history_panel == IF has_history_panel
                            THEN createPanel(Rect(top + stack_h + gap, margin, history_h, cols - 2 * margin),
                                             "Activity")
                            ELSE None
       IN [NoFrame EXCEPT
             !.kind = "panels", !.rows = rows, !.cols = cols,
             !.layout = [top |-> top, gap |-> gap, content_h |-> content_h, stack_h |-> stack_h,
                         remaining_h |-> remaining_h, has_history_panel |-> has_history_panel,
                         history_h |-> history_h, cpu_h |-> cpu_h, ram_h |-> ram_h, gpu_h |-> gpu_h,
                         disk_h |-> disk_h],
             !.windows = Existing(<<cpu_panel, ram_panel, gpu_panel, net_panel, disk_panel, history_panel>>),
             !.deleted = Existing(<<cpu_panel, ram_panel, gpu_panel, disk_panel, history_panel>>)]

\* a tool-reported GPU and cards without telemetry, as they sit in a Snapshot
FullGpu == SnapshotGpu(Some(Num(30)), Some(Num(100)), Some(Num(400)))
BareGpu(i, in_use) ==
  GpuFromCard(CardName(i), Card(Some(STR_0x8086), Some(STR_i915), in_use, None, None, None, None, None, None, None),
              None)

\* Snapshots with different preferred panel heights
RenderSnapshots ==
  { Snapshot0,
    Snapshot(Some(Num(50)), Some(Num(60)), Some(8000), Some(6000), Some(1000), Some(900), <<FullGpu>>),
    Snapshot(Some(Num(50)), None, Some(8000), Some(6000), None, None, <<BareGpu(1, None), BareGpu(2, None)>>),
    Snapshot(None, Some(Num(60)), None, None, Some(1000), Some(900),
             <<FullGpu, BareGpu(1, Some(TRUE)), BareGpu(2, Some(TRUE))>>) }

\* no key typed, none read
NoTyped == [queue |-> <<>>, read |-> [key |-> "none", at |-> "none"]]

TerminalSizes == [rows : MinRows..MaxRows, cols : MinCols..MaxCols]

InitRender ==
  /\ pc = "render"
  /\ term \in TerminalSizes
  /\ snapshot \in RenderSnapshots
  /\ frame = NoFrame
  /\ typed = NoTyped

\* one call of renderSnapshot
RenderFrame ==
  /\ pc = "render"
  /\ pc' = "rendered"
  /\ frame' = [renderSnapshot(snapshot, term.rows, term.cols) EXCEPT !.before = frame.kind]
  /\ UNCHANGED <<ch, polls, snapshot, feed, term, busy_state, samplerVars, gpuVars, historyVars, layoutVars,
                 pureVars, typed>>

(***************************************************************************)
(* main: the first poll and the input loop                                 *)
(***************************************************************************)
kHistoryPoints == 2048
kFrameIntervalMs == 1000

\* the aggregate line of /proc/stat at the n-th poll (n = 0 for the first)
FeedLine(f, n) ==
  StatLine("cpu", f.user + n * f.d_user, 0, 0, f.idle + n * f.d_idle, 0, 0, 0, 0)

Feeds == [user : 0..MaxStart, idle : 0..MaxStart, d_user : 0..MaxStep, d_idle : 1..MaxStep]

NoFeed == [user |-> 0, idle |-> 0, d_user |-> 0, d_idle |-> 0]

\* what the other probes of one poll find: the thermal sensors, /proc/meminfo, statvfs,
\* the increase per poll of the io-time counter of the root device (none: the counter
\* cannot be read) and the time since the previous reading of it
MachineReadings ==
  { [env |-> NoSensors, total_kb |-> None, available_kb |-> None, total_bytes |-> None,
     free_bytes |-> None, io_step_ms |-> None, elapsed_ms |-> kFrameIntervalMs],
    [env |-> [zones |-> <<Zone(Some(151000), STR_x86_pkg_temp), Zone(Some(60000), STR_x86_pkg_temp)>>,
              hwmon |-> <<>>],
     total_kb |-> Some(8000), available_kb |-> Some(6000),
     total_bytes |-> Some(1000), free_bytes |-> Some(900), io_step_ms |-> Some(500),
     elapsed_ms |-> kFrameIntervalMs] }

\* the io-time field of /proc/diskstats at the n-th poll
DiskIoTimeMs(m, n) == IF HasValue(m.io_step_ms) THEN Some(n * ValueOf(m.io_step_ms)) ELSE None

\* the GPU hardware main runs on
MainProbes ==
  { NoProbe,
    [rows |-> <<ToolRow(STR_GeForce, Some(Num(60)), Some(Num(1500)), Some(Num(30)), Some(Num(75)),
                        Some(Num(100)), Some(Num(400)))>>,
     cards |-> <<Card(Some(STR_0x10de), Some(STR_nvidia), Some(TRUE), None, None, None, None, None, None, None)>>,
     fallback_sysfs |-> None, fallback_fuse |-> None] }

\* the sizes the terminal is given
MainSizes == {[rows |-> 17, cols |-> 80], [rows |-> 30, cols |-> 79], [rows |-> 30, cols |-> 100]}

InitMain ==
  /\ pc = "start"
  /\ typed = NoTyped
  /\ ch = "none"
  /\ polls = 0
  /\ snapshot = Snapshot0
  /\ feed \in Feeds
  /\ term \in MainSizes
  /\ frame = NoFrame
  /\ busy_state = DiskBusyState0
  /\ probe \in MainProbes
  /\ fusion = NotCollected
  /\ InitSampler
  /\ InitHistory
  /\ max_points = kHistoryPoints
  /\ split = NoSplit

\* collectSnapshot, updateHistory and renderSnapshot, as both poll sites of main run them
PollCycle ==
  \E m \in MachineReadings :
    LET line == FeedLine(feed, polls)
        sampled == collectCpuUsagePercent(state, line)
        collected == collectGpus(probe.rows, probe.cards, probe.fallback_sysfs, probe.fallback_fuse)
        taken == Snapshot(sampled.result, collectCpuTemperature(m.env), m.total_kb, m.available_kb,
                          m.total_bytes, m.free_bytes, collected.gpus)
        disk_busy == computeRootDiskBusyPercent(busy_state, DiskIoTimeMs(m, polls), m.elapsed_ms)
    IN /\ state' = sampled.state
       /\ cpu_call' = CallRecord(state, line, cpu_call)
       /\ fusion' = collected
       /\ snapshot' = taken
       /\ busy_state' = disk_busy.state
       /\ history' = updateHistory(history, taken, max_points, disk_busy.result)
       /\ pushed' = PushedAfter(pushed, history, taken, max_points, disk_busy.result)
       /\ hist_call' = [n |-> hist_call.n + 1, snapshot |-> taken, disk_override_percent |-> disk_busy.result,
                        found |-> history]
       /\ frame' = [renderSnapshot(taken, term.rows, term.cols) EXCEPT !.before = frame.kind]
       /\ polls' = polls + 1
       /\ UNCHANGED <<probe, max_points, split, feed, term, pureVars, typed>>

\* lines 1866-1869: the poll before the loop
FirstPoll ==
  /\ pc = "start"
  /\ pc' = "getch"
  /\ ch' = ch
  /\ PollCycle

\* getch returns ERR: the timer tick
KeyTimeout ==
  /\ pc = "getch"
  /\ polls < MaxPolls
  /\ pc' = pc
  /\ ch' = "ERR"
  /\ PollCycle

\* variant: a resize runs a poll cycle like the timer tick
KeyResize_Polls ==
  /\ pc = "getch"
  /\ polls < MaxPolls
  /\ pc' = pc
  /\ ch' = "KEY_RESIZE"
  /\ PollCycle

\* getch returns KEY_RESIZE: the terminal has a new size and the frame is rendered again
\* from the Snapshot and the history at hand
KeyResize ==
  /\ pc = "getch"
  /\ ch' = "KEY_RESIZE"
  /\ term' \in MainSizes
  /\ frame' = [renderSnapshot(snapshot, term'.rows, term'.cols) EXCEPT !.before = frame.kind]
  /\ UNCHANGED <<pc, polls, snapshot, feed, busy_state, samplerVars, gpuVars, historyVars, layoutVars, pureVars,
                 typed>>

\* getch returns any other key
KeyOther ==
  /\ pc = "getch"
  /\ ch' = "x"
  /\ UNCHANGED <<pc, polls, snapshot, feed, term, frame, busy_state, samplerVars, gpuVars, historyVars,
                 layoutVars, pureVars, typed>>

\* getch returns 'q' or 'Q'
KeyQuit ==
  /\ pc = "getch"
  /\ ch' \in {"q", "Q"}
  /\ pc' = "done"
  /\ UNCHANGED <<polls, snapshot, feed, term, frame, busy_state, samplerVars, gpuVars, historyVars,
                 layoutVars, pureVars, typed>>

(***************************************************************************)
(* main step by step: the keys typed while a cycle runs, the key read, the *)
(* cycle the key starts, and the end of the program                        *)
(***************************************************************************)
\* the keys a user types
TypedKeys == {"q", "Q", "x"}

\* what getch returns when no typed key waits: a key that arrives during the wait,
\* a resize, or ERR when the wait times out
WaitKeys == {"ERR", "KEY_RESIZE", "q", "Q", "x"}

\* variant: the quit key lets one more poll cycle run
AfterKey_PollsOnQuit(key) ==
  IF key \in {"q", "Q", "ERR"} THEN "poll"
  ELSE IF key = "KEY_RESIZE" THEN "resize"
  ELSE "getch"

\* lines 1873-1884: where the loop goes on the key read
AfterKey(key) ==
  IF key \in {"q", "Q"} THEN "quit"
  ELSE IF key = "KEY_RESIZE" THEN "resize"
  ELSE IF key = "ERR" THEN "poll"
  ELSE "getch"

\* a key is typed while a poll cycle or a render runs: it waits in the input queue
TypeKey ==
  /\ pc \in {"start", "poll", "resize"}
  /\ Len(typed.queue) < MaxTyped
  /\ \E key \in TypedKeys : typed' = [typed EXCEPT !.queue = Append(@, [key |-> key, at |-> pc])]
  /\ UNCHANGED <<pc, ch, polls, snapshot, feed, term, frame, busy_state, samplerVars, gpuVars, historyVars,
                 layoutVars, pureVars>>

\* line 1872: getch returns the oldest waiting key, or else what happens during the wait
ReadKey ==
  /\ pc = "getch"
  /\ \E got \in (IF typed.queue # <<>> THEN {Head(typed.queue)}
                 ELSE {[key |-> key, at |-> "getch"] : key \in WaitKeys}) :
       /\ got.key = "ERR" => polls < MaxPolls
       /\ ch' = got.key
       /\ pc' = AfterKey(got.key)
       /\ typed' = [queue |-> IF typed.queue # <<>> THEN Tail(typed.queue) ELSE <<>>, read |-> got]
  /\ UNCHANGED <<polls, snapshot, feed, term, frame, busy_state, samplerVars, gpuVars, historyVars,
                 layoutVars, pureVars>>

\* lines 1886-1889: the poll cycle of a timer tick
RunPoll ==
  /\ pc = "poll"
  /\ pc' = "getch"
  /\ ch' = ch
  /\ PollCycle

\* lines 1877-1880: the render of a resize
RunResize ==
  /\ pc = "resize"
  /\ pc' = "getch"
  /\ term' \in MainSizes
  /\ frame' = [renderSnapshot(snapshot, term'.rows, term'.cols) EXCEPT !.before = frame.kind]
  /\ UNCHANGED <<ch, polls, snapshot, feed, busy_state, samplerVars, gpuVars, historyVars, layoutVars, pureVars,
                 typed>>

\* lines 1892-1893: endwin and the return of main
Terminate ==
  /\ pc = "quit"
  /\ pc' = "done"
  /\ UNCHANGED <<ch, polls, snapshot, feed, term, frame, busy_state, samplerVars, gpuVars, historyVars,
                 layoutVars, pureVars, typed>>

(***************************************************************************)
(* Specifications                                                          *)
(***************************************************************************)
IdleSampler == InitSampler
IdleGpu == probe = NoProbe /\ fusion = NotCollected
IdleHistory == InitHistory /\ max_points = 0
IdleLayout == split = NoSplit
IdleMain ==
  /\ pc = "off" /\ ch = "none" /\ polls = 0 /\ snapshot = Snapshot0 /\ feed = NoFeed
  /\ term = [rows |-> 0, cols |-> 0] /\ frame = NoFrame /\ busy_state = DiskBusyState0
  /\ typed = NoTyped
IdleBraille == canvas = NoCanvas
IdleThermal == thermal = NoTemp
IdlePick == pick = NoPick
IdleSensors == sensors_call = NoSensorsCall
IdlePure == IdleBraille /\ IdleThermal /\ IdlePick /\ IdleSensors

\* the program
Init == InitMain /\ IdlePure
Next == FirstPoll \/ KeyTimeout \/ KeyResize \/ KeyOther \/ KeyQuit
Spec == Init /\ [][Next]_vars

\* the program step by step on one machine; once the loop is left, main runs on to its return
InitLoop ==
  /\ Init
  /\ feed = [user |-> 0, idle |-> 0, d_user |-> 1, d_idle |-> 1]
  /\ probe = NoProbe
  /\ term = [rows |-> 30, cols |-> 100]
NextLoop == FirstPoll \/ TypeKey \/ ReadKey \/ RunPoll \/ RunResize \/ Terminate
SpecLoop == InitLoop /\ [][NextLoop]_vars /\ WF_vars(Terminate)

\* the sampler called on arbitrary counter readings
InitSamplerOnly == InitSampler /\ IdleGpu /\ IdleHistory /\ IdleLayout /\ IdleMain /\ IdlePure
NextSampler == SampleCpu
SpecSampler == InitSamplerOnly /\ [][NextSampler]_vars

\* the history store fed arbitrary Snapshots, for every capacity
InitHistoryOnly ==
  InitHistory /\ max_points \in 0..MaxPoints /\ IdleSampler /\ IdleGpu /\ IdleLayout /\ IdleMain /\ IdlePure
NextHistory == UpdateHistory
SpecHistory == InitHistoryOnly /\ [][NextHistory]_vars

\* collectGpus on every combination of probe results
InitGpuOnly == InitGpu /\ IdleSampler /\ IdleHistory /\ IdleLayout /\ IdleMain /\ IdlePure
NextGpu == CollectGpus
SpecGpu == InitGpuOnly /\ [][NextGpu]_vars

\* splitColumnHeights on every argument
InitLayoutOnly == InitLayout /\ IdleSampler /\ IdleGpu /\ IdleHistory /\ IdleMain /\ IdlePure
NextLayout == SplitColumn
SpecLayout == InitLayoutOnly /\ [][NextLayout]_vars

\* renderSnapshot on every terminal size
InitRenderOnly ==
  /\ InitRender /\ ch = "none" /\ polls = 0 /\ feed = NoFeed /\ busy_state = DiskBusyState0
  /\ IdleSampler /\ IdleGpu /\ IdleHistory /\ IdleLayout /\ IdlePure
NextRender == RenderFrame
SpecRender == InitRenderOnly /\ [][NextRender]_vars

\* the rasterizer on fresh canvases
InitBrailleOnly ==
  InitBraille /\ IdleThermal /\ IdlePick /\ IdleSampler /\ IdleGpu /\ IdleHistory /\ IdleLayout /\ IdleMain /\ IdleSensors
NextBraille == RasterizeLine \/ PlotSeries
SpecBraille == InitBrailleOnly /\ [][NextBraille]_vars

\* the trend graph alone
InitGraphOnly ==
  InitGraph /\ IdleThermal /\ IdlePick /\ IdleSampler /\ IdleGpu /\ IdleHistory /\ IdleLayout /\ IdleMain /\ IdleSensors
NextGraph == RenderHistoryGraph
SpecGraph == InitGraphOnly /\ [][NextGraph]_vars

\* the temperature functions on raw readings and sensor trees
InitThermalOnly ==
  InitTemp /\ IdleBraille /\ IdlePick /\ IdleSampler /\ IdleGpu /\ IdleHistory /\ IdleLayout /\ IdleMain /\ IdleSensors
NextThermal == NormalizeTemperature \/ CollectCpuTemperature
SpecThermal == InitThermalOnly /\ [][NextThermal]_vars

\* the two selection functions on GPU lists
InitPickOnly ==
  InitPick /\ IdleBraille /\ IdleThermal /\ IdleSampler /\ IdleGpu /\ IdleHistory /\ IdleLayout /\ IdleMain /\ IdleSensors
NextPick == PickGpuIndices
SpecPick == InitPickOnly /\ [][NextPick]_vars

\* collectGpus followed by the choice of the GPU to display
InitDisplayOnly ==
  InitDisplay /\ IdleSampler /\ IdleHistory /\ IdleLayout /\ IdleMain /\ IdlePure
NextDisplay == CollectGpus \/ PickCollected
SpecDisplay == InitDisplayOnly /\ [][NextDisplay]_vars

\* the sensors fallback on outputs of the tool, and called repeatedly as time passes
InitSensorsOnly ==
  /\ InitSensors /\ IdleBraille /\ IdleThermal /\ IdlePick
  /\ IdleSampler /\ IdleGpu /\ IdleHistory /\ IdleLayout /\ IdleMain
NextSensors == ParseSensors \/ CallSensors
SpecSensors == InitSensorsOnly /\ [][NextSensors]_vars

(***************************************************************************)
(* Properties                                                              *)
(***************************************************************************)
\* the counters a sampler call read
ReadIdle == IdleTicks(cpu_call.line)
ReadTotal == TotalTicks(cpu_call.line)

\* C1: a sampler call that read the counters reports "unavailable" exactly when no baseline
\* was stored, or idle_ticks or total_ticks is below the stored baseline, or total_ticks
\* equals the baseline total; otherwise it returns a finite number (no division by zero)
\* that is not negative.
C1_UnavailableExactlyWhen ==
  cpu_call.kind = "read" =>
    /\ (cpu_call.result = None) <=>
         \/ ~cpu_call.found.initialized
         \/ ReadIdle < cpu_call.found.prev_idle
         \/ ReadTotal < cpu_call.found.prev_total
         \/ ReadTotal = cpu_call.found.prev_total
    /\ HasValue(cpu_call.result) =>
         /\ IsFinite(ValueOf(cpu_call.result))
         /\ ValueOf(cpu_call.result)[1] >= 0

\* a call that found a baseline, saw no counter decrease and an unchanged total
C1_Witness ==
  /\ cpu_call.kind = "read"
  /\ cpu_call.found.initialized
  /\ ReadIdle >= cpu_call.found.prev_idle
  /\ ReadTotal = cpu_call.found.prev_total
  /\ ReadTotal > 0
  /\ cpu_call.result = None

\* C2: when an earlier call read the counters, neither counter decreased since and the total
\* advanced, the result is 100 x (1 - delta-idle/delta-total) limited to [0,100], the deltas
\* taken against the counters of the latest earlier reading call; (100,1000) then (150,1100)
\* gives 50; every returned value lies in [0,100].
C2_UsageFormula ==
  /\ (cpu_call.kind = "read" /\ cpu_call.before # <<>> /\ ReadIdle >= cpu_call.before[1]
      /\ ReadTotal > cpu_call.before[2]) =>
       LET di == ReadIdle - cpu_call.before[1]
           dt == ReadTotal - cpu_call.before[2]
       IN /\ HasValue(cpu_call.result)
          /\ LET v == ValueOf(cpu_call.result)
             IN IF di >= dt THEN v = <<0, 1>>
                ELSE v[2] > 0 /\ v[1] * dt = 100 * (dt - di) * v[2]
  /\ (cpu_call.kind = "read" /\ cpu_call.before = <<100, 1000>> /\ ReadIdle = 150 /\ ReadTotal = 1100)
       => cpu_call.result = <<(<<50, 1>>)>>
  /\ HasValue(cpu_call.result) =>
       LET v == ValueOf(cpu_call.result)
       IN v[2] > 0 /\ 0 <= v[1] /\ v[1] <= 100 * v[2]

\* the documented example has run: (100,1000), then (150,1100), result 50
C2_Witness ==
  /\ cpu_call.kind = "read"
  /\ cpu_call.before = <<100, 1000>>
  /\ ReadIdle = 150 /\ ReadTotal = 1100
  /\ cpu_call.result = <<(<<50, 1>>)>>

\* C3: for capacity N > 0, after k calls of updateHistory every series has length min(k, N)
\* and holds the last min(k, N) pushed values in the order they were pushed.
C3_LengthAndOrder ==
  max_points > 0 =>
    \A s \in Series :
      LET k == hist_call.n
          m == IF k < max_points THEN k ELSE max_points
      IN /\ Len(pushed[s]) = k
         /\ Len(history[s]) = m
         /\ \A j \in 1..m : history[s][j] = pushed[s][k - m + j]

\* more values were pushed than the capacity holds, and the evicted one differs from those kept
C3_Witness ==
  /\ max_points = 2
  /\ hist_call.n = max_points + 2
  /\ Len(history["cpu_temp"]) = 2
  /\ history["cpu_temp"][1] # history["cpu_temp"][2]
  /\ pushed["cpu_temp"][1] # history["cpu_temp"][1]
  /\ pushed["cpu_temp"][2] # history["cpu_temp"][1]

\* the sample of the last updateHistory call for series s
LastSample(s) == HistorySample(hist_call.snapshot, hist_call.disk_override_percent)[s]

\* x limited to [0, 100]
Limited(x) == IF x[1] < 0 THEN <<0, 1>> ELSE IF x[1] > 100 * x[2] THEN <<100, 1>> ELSE x

\* C4: a call appends exactly one element to each series: the sample limited to [0,100] when
\* it is present, else the previous last element, else 0 for an empty series; what is in front
\* of it is the tail of the series before; every stored value is a number in [0,100].
C4_AppendPolicy ==
  (hist_call.n > 0 /\ max_points > 0) =>
    \A s \in Series :
      LET old == hist_call.found[s]
          new == history[s]
          n == Len(new)
      IN /\ n >= 1
         /\ new[n] = IF HasValue(LastSample(s)) THEN Limited(ValueOf(LastSample(s)))
                     ELSE IF old = <<>> THEN <<0, 1>> ELSE old[Len(old)]
         /\ n - 1 <= Len(old)
         /\ \A j \in 1..(n - 1) : new[j] = old[Len(old) - (n - 1) + j]
         /\ \A j \in 1..n : new[j][2] > 0 /\ 0 <= new[j][1] /\ new[j][1] <= 100 * new[j][2]

\* a missing sample met a series whose last value is not 0 and left it as the last value
C4_Witness ==
  /\ hist_call.n >= 2
  /\ max_points > 0
  /\ ~HasValue(LastSample("cpu_temp"))
  /\ hist_call.found["cpu_temp"] # <<>>
  /\ history["cpu_temp"][Len(history["cpu_temp"])] = <<100, 1>>

\* the closed form of the fed counters: 100 x (1 - delta-idle/delta-total)
FedIdleDelta == feed.d_idle
FedTotalDelta == feed.d_idle + feed.d_user
MatchesClosedForm(v) == v[2] > 0 /\ v[1] * FedTotalDelta = 100 * (FedTotalDelta - FedIdleDelta) * v[2]

\* C5 as stated: after five polls of linearly increasing counters the CPU-usage series has
\* length 4 and its values equal 100 x (1 - delta-idle/delta-total).
C5_Original ==
  polls = 5 =>
    /\ Len(history["cpu_usage"]) = 4
    /\ \A j \in 1..4 : MatchesClosedForm(history["cpu_usage"][j])

\* C5 amended: after five polls of linearly increasing counters the CPU-usage series has
\* length 5: the baseline poll contributes the fill value 0, and the four values after it
\* equal 100 x (1 - delta-idle/delta-total).
C5_FivePolls ==
  polls = 5 =>
    /\ Len(history["cpu_usage"]) = 5
    /\ history["cpu_usage"][1] = <<0, 1>>
    /\ \A j \in 2..5 : MatchesClosedForm(history["cpu_usage"][j])

\* five polls have run on counters whose busy share is neither 0 nor 100
C5_Witness ==
  /\ polls = 5
  /\ pc = "getch"
  /\ feed.d_user > 0
  /\ Len(history["cpu_usage"]) = 5
  /\ history["cpu_usage"][5] # <<0, 1>>
  /\ history["cpu_usage"][5] # <<100, 1>>

\* the tool entries that took sysfs entry i as their supplement
ConsumersOf(i) == {t \in 1..Len(fusion.extra) : fusion.extra[t] = i}

\* the places of the returned list that hold sysfs entry i as a record of its own
AppendedAt(i) == {k \in 1..Len(fusion.gpus) : fusion.gpus[k] = fusion.sysfs[i]}

\* C6: with at least one tool entry the output has at least as many records as the tool
\* reported, no sysfs entry supplements more than one tool entry, and every sysfs entry is
\* either the supplement of one tool entry or one record of the output, never both or neither.
C6_SysfsAccountedOnce ==
  (fusion.pc = "returned" /\ Len(fusion.tool) >= 1) =>
    /\ Len(fusion.gpus) >= Len(fusion.tool)
    /\ Len(fusion.extra) = Len(fusion.tool)
    /\ \A i \in 1..Len(fusion.sysfs) :
         /\ Cardinality(ConsumersOf(i)) <= 1
         /\ Cardinality(ConsumersOf(i)) + Cardinality(AppendedAt(i)) = 1
         /\ fusion.sysfs_used[i] <=> ConsumersOf(i) # {}

\* one sysfs entry was consumed by the only tool entry and another one was appended
C6_Witness ==
  /\ fusion.pc = "returned"
  /\ Len(fusion.tool) = 1
  /\ Len(fusion.sysfs) = 2
  /\ \E i, j \in 1..2 : i # j /\ ConsumersOf(i) = {1} /\ AppendedAt(j) # {} /\ AppendedAt(i) = {}
  /\ Len(fusion.gpus) = 2

\* the weights of the telemetry score
Populated(o) == IF o # <<>> THEN 1 ELSE 0
WeightedScore(g) ==
  2 * Populated(g.temperature_c) + 2 * Populated(g.core_clock_mhz) + 3 * Populated(g.utilization_percent)
  + 2 * Populated(g.power_w)
  + 2 * (IF g.memory_used_mib # <<>> \/ g.memory_total_mib # <<>> THEN 1 ELSE 0)
  + Populated(g.memory_utilization_percent)

TelemetryFields ==
  {"temperature_c", "core_clock_mhz", "utilization_percent", "power_w", "memory_used_mib",
   "memory_total_mib", "memory_utilization_percent"}

\* C7: in both branches the returned list is ordered by telemetry score descending and, for
\* equal scores, by name ascending; the score has the stated weights and does not decrease
\* when one more field is populated.
C7_OrderedByScoreThenName ==
  fusion.pc = "returned" =>
    /\ \A k \in 1..(Len(fusion.gpus) - 1) :
         LET a == fusion.gpus[k]
             b == fusion.gpus[k + 1]
         IN \/ WeightedScore(a) > WeightedScore(b)
            \/ WeightedScore(a) = WeightedScore(b) /\ ~StrLess(b.name, a.name)
    /\ \A k \in 1..Len(fusion.gpus) :
         LET g == fusion.gpus[k]
         IN /\ telemetryScore(g) = WeightedScore(g)
            /\ \A f \in TelemetryFields :
                 g[f] = <<>> => telemetryScore([g EXCEPT ![f] = <<(<<1, 1>>)>>]) >= telemetryScore(g)

\* a fused list in which two neighbours have the same score and different names
C7_Witness ==
  /\ fusion.pc = "returned"
  /\ Len(fusion.tool) >= 1
  /\ \E k \in 1..(Len(fusion.gpus) - 1) :
       /\ WeightedScore(fusion.gpus[k]) = WeightedScore(fusion.gpus[k + 1])
       /\ WeightedScore(fusion.gpus[k]) > 0
       /\ StrLess(fusion.gpus[k].name, fusion.gpus[k + 1].name)
       /\ fusion.gpus[k + 1].source = STR_nvidia_smi

\* a record with at least one populated telemetry field
AnyTelemetryField(g) ==
  \/ g.temperature_c # <<>> \/ g.core_clock_mhz # <<>> \/ g.utilization_percent # <<>>
  \/ g.power_w # <<>> \/ g.memory_used_mib # <<>> \/ g.memory_total_mib # <<>>
  \/ g.memory_utilization_percent # <<>>

\* C8 as stated: when the tool reports no GPU, every record of the result has at least one
\* populated telemetry field.
C8_Original ==
  (fusion.pc = "returned" /\ fusion.tool = <<>>) =>
    \A k \in 1..Len(fusion.gpus) : AnyTelemetryField(fusion.gpus[k])

\* the name of the record made for the i-th card starts with the card's directory name
IsRecordOfCard(g, i) == Len(g.name) >= 5 /\ SubSeq(g.name, 1, 5) = <<99, 97, 114, 100, 48 + (i - 1)>>

\* C8 amended: when the tool reports no GPU, the result is the sysfs list with exactly one
\* record for every display card, whether or not a telemetry field of it is populated.
C8_EveryCardKept ==
  (fusion.pc = "returned" /\ fusion.tool = <<>>) =>
    /\ fusion.gpus = fusion.sysfs
    /\ Len(fusion.gpus) = Len(probe.cards)
    /\ \A i \in 1..Len(probe.cards) :
         Cardinality({k \in 1..Len(fusion.gpus) : IsRecordOfCard(fusion.gpus[k], i)}) = 1

\* a sysfs-only result that holds a card of which only name, source and in-use are known
C8_Witness ==
  /\ fusion.pc = "returned"
  /\ fusion.tool = <<>>
  /\ Len(fusion.gpus) = 2
  /\ AnyTelemetryField(fusion.gpus[1])
  /\ ~AnyTelemetryField(fusion.gpus[2])
  /\ fusion.gpus[2].in_use # <<>>

\* C9 as stated: in every returned record with memory_used_mib and memory_total_mib present
\* and memory_total_mib > 0, memory_utilization_percent is present and is 100 x used/total
\* of that record.
C9_MemoryUtilizationConsistent ==
  fusion.pc = "returned" =>
    \A k \in 1..Len(fusion.gpus) :
      LET g == fusion.gpus[k]
      IN (g.memory_used_mib # <<>> /\ g.memory_total_mib # <<>> /\ g.memory_total_mib[1][1] > 0) =>
           /\ g.memory_utilization_percent # <<>>
           /\ LET u == g.memory_utilization_percent[1]
                  used == g.memory_used_mib[1]
                  total == g.memory_total_mib[1]
              IN u[1] * used[2] * total[1] = 100 * used[1] * total[2] * u[2]

C11_TooSmallNotice ==
  /\ frame.kind # "none" =>
       /\ frame.rows = term.rows /\ frame.cols = term.cols
       /\ (frame.rows < 18 \/ frame.cols < 80) =>
            /\ frame.kind = "notice"
            /\ frame.windows = <<>>
            /\ frame.deleted = <<>>
            /\ frame.layout = <<>>
       /\ (frame.rows >= 18 /\ frame.cols >= 80) =>
            /\ frame.kind = "panels"
            /\ frame.windows # <<>>
            /\ frame.layout # <<>>
  /\ pc = "done" => ch \in {"q", "Q"}
  /\ pc \in {"getch", "done"} => frame.kind # "none"

\* a frame with panels rendered right after a frame that was the notice
C11_Witness ==
  /\ pc = "getch"
  /\ frame.kind = "panels"
  /\ frame.before = "notice"
  /\ polls >= 1

\* the two cells of a horizontal step, left one first
LineLeftX == Min(canvas.x0, canvas.x1)
LineIsHorizontalStep ==
  /\ canvas.op = "line"
  /\ canvas.pc = "drawn"
  /\ isInsideCanvas(canvas.canvas, canvas.x0, canvas.y0)
  /\ isInsideCanvas(canvas.canvas, canvas.x1, canvas.y1)
  /\ canvas.y1 = canvas.y0
  /\ Abs(canvas.x1 - canvas.x0) = 1

\* bit tests on a mask: up = 1, down = 2, left = 4, right = 8, point = 16
MaskHas(mask, bit) == (mask \div bit) % 2 = 1

\* C12: a line between two horizontally adjacent in-canvas cells sets the right bit on the
\* left cell and the left bit on the right cell, no up or down bit on either, and both
\* cells are drawn as the horizontal glyph; a plotted series of one sample leaves exactly
\* one non-zero cell, its mask is the point bit alone and it is drawn as the middle dot; a
\* cell with an all-zero mask shows a blank and glyphForMask of 0 is the blank.
C12_HorizontalStepAndPoint ==
  /\ LineIsHorizontalStep =>
       LET y == canvas.y0
           w == canvas.canvas.width
           left == canvas.canvas.cells[y * w + LineLeftX + 1]
           right == canvas.canvas.cells[y * w + LineLeftX + 2]
       IN /\ MaskHas(left, 8) /\ ~MaskHas(left, 4)
          /\ MaskHas(right, 4) /\ ~MaskHas(right, 8)
          /\ ~MaskHas(left, 1) /\ ~MaskHas(left, 2) /\ ~MaskHas(right, 1) /\ ~MaskHas(right, 2)
          /\ canvas.area[y * w + LineLeftX + 1].glyph = 9472
          /\ canvas.area[y * w + LineLeftX + 2].glyph = 9472
  /\ (canvas.pc = "drawn" /\ canvas.op = "plot" /\ Len(canvas.values) = 1) =>
       LET marked == {i \in 1..Len(canvas.canvas.cells) : canvas.canvas.cells[i] # 0}
       IN /\ Cardinality(marked) = 1
          /\ \A i \in marked : canvas.canvas.cells[i] = 16 /\ canvas.area[i].glyph = 183
  /\ canvas.pc = "drawn" =>
       \A i \in 1..Len(canvas.canvas.cells) : canvas.canvas.cells[i] = 0 => canvas.area[i].glyph = 32
  /\ glyphForMask(0) = 32

\* a line from a cell to its right neighbour was rasterized on a canvas with a row above
\* and a row below it
C12_Witness ==
  /\ LineIsHorizontalStep
  /\ canvas.x1 = canvas.x0 + 1
  /\ canvas.y0 = 1
  /\ canvas.canvas.height = 3
  /\ canvas.canvas.cells[canvas.canvas.width + canvas.x0 + 1] = 24
  /\ canvas.canvas.cells[canvas.canvas.width + canvas.x0 + 2] = 20

\* the value v stands for as a temperature: v/1000 beyond magnitude 1000, else v
RawInRange(v) == IF Abs(v) > 1000 THEN 0 <= v /\ v <= 150000 ELSE 0 <= v /\ v <= 150

\* C13: normalizeTemperatureC of an integer v yields v/1000 when |v| > 1000 and v otherwise,
\* and yields it only when it lies in [0,150]; outside it yields none, never a limited
\* value.  The temperature collectCpuTemperature puts into the Snapshot, when present, lies
\* in [0,150].
C13_TemperatureNormalized ==
  /\ thermal.pc = "normalized" =>
       LET v == thermal.raw_value
       IN IF RawInRange(v)
          THEN /\ thermal.celsius # <<>>
               /\ thermal.celsius[1][2] > 0
               /\ IF Abs(v) > 1000 THEN 1000 * thermal.celsius[1][1] = v * thermal.celsius[1][2]
                  ELSE thermal.celsius[1][1] = v * thermal.celsius[1][2]
          ELSE thermal.celsius = <<>>
  /\ (thermal.pc = "collected" /\ thermal.temperature_c # <<>>) =>
       LET t == thermal.temperature_c[1]
       IN t[2] > 0 /\ 0 <= t[1] /\ t[1] <= 150 * t[2]

\* a millidegree reading just above the range was rejected
C13_Witness ==
  /\ thermal.pc = "normalized"
  /\ thermal.raw_value = 150001
  /\ thermal.celsius = <<>>

\* a step of main that ran one full cycle: a new Snapshot was collected, one sample was
\* appended to every series and the frame was rendered from the new Snapshot
FullCycleStep ==
  /\ polls' = polls + 1
  /\ hist_call'.n = hist_call.n + 1
  /\ hist_call'.snapshot = snapshot'
  /\ \A s \in Series : Len(pushed'[s]) = Len(pushed[s]) + 1
  /\ frame'.rows = term'.rows /\ frame'.cols = term'.cols
  /\ frame' = [renderSnapshot(snapshot', term'.rows, term'.cols) EXCEPT !.before = frame.kind]

\* a step of main that only rendered the frame again, from the Snapshot and history at hand
RenderOnlyStep ==
  /\ polls' = polls
  /\ snapshot' = snapshot
  /\ history' = history
  /\ pushed' = pushed
  /\ hist_call' = hist_call
  /\ state' = state
  /\ busy_state' = busy_state
  /\ frame'.rows = term'.rows /\ frame'.cols = term'.cols
  /\ frame' = [renderSnapshot(snapshot, term'.rows, term'.cols) EXCEPT !.before = frame.kind]

\* C14 as stated: both the timer tick and the resize event run one full cycle.
C14_Original ==
  [][(pc = "getch" /\ ch' \in {"ERR", "KEY_RESIZE"}) => FullCycleStep]_vars

\* C14: a timer tick (getch times out) runs one full cycle: collect a Snapshot, append one
\* sample to every series, render; a terminal-resize event renders the frame again at the
\* new size from the Snapshot and the history of the last poll, without collecting and
\* without appending; the poll before the loop is a full cycle too.
C14_PollOnTickRenderOnResize ==
  [][/\ (pc = "getch" /\ ch' = "ERR") => FullCycleStep
     /\ (pc = "getch" /\ ch' = "KEY_RESIZE") => RenderOnlyStep
     /\ pc = "start" => FullCycleStep]_vars

\* a resize was handled after three polls and the history still holds three samples
C14_Witness ==
  /\ pc = "getch"
  /\ ch = "KEY_RESIZE"
  /\ polls = 3
  /\ Len(history.cpu_usage) = 3
  /\ frame.kind = "panels"
  /\ frame.before = "notice"

\* C15: after every call that read the aggregate line the stored baseline is the counters
\* that call read; a call that sees the idle or the total counter below the baseline
\* returns unavailable; and when the latest earlier reading call was such a regression, a
\* call whose counters are not below the regressed reading and whose total advanced
\* returns the usage computed against the regressed reading.
C15_RegressionCostsOneSample ==
  /\ cpu_call.kind = "read" =>
       state = [prev_idle |-> ReadIdle, prev_total |-> ReadTotal, initialized |-> TRUE]
  /\ (cpu_call.kind = "read" /\ cpu_call.found.initialized
      /\ (ReadIdle < cpu_call.found.prev_idle \/ ReadTotal < cpu_call.found.prev_total)) =>
       cpu_call.result = <<>>
  /\ (cpu_call.kind = "read" /\ cpu_call.before_regressed
      /\ ReadIdle >= cpu_call.before[1] /\ ReadTotal > cpu_call.before[2]) =>
       LET di == ReadIdle - cpu_call.before[1]
           dt == ReadTotal - cpu_call.before[2]
       IN /\ cpu_call.result # <<>>
          /\ LET v == cpu_call.result[1]
             IN IF di >= dt THEN v = <<0, 1>>
                ELSE v[2] > 0 /\ v[1] * dt = 100 * (dt - di) * v[2]

\* the call after a regression returned a usage between 0 and 100 against the regressed
\* reading
C15_Witness ==
  /\ cpu_call.kind = "read"
  /\ cpu_call.before_regressed
  /\ cpu_call.before = <<1, 2>>
  /\ ReadIdle = 2 /\ ReadTotal = 4
  /\ cpu_call.result = <<(<<50, 1>>)>>

\* C16: when updateHistory is called without a disk-busy sample, the value pushed onto the
\* disk series is its last stored value, or 0 when the series was empty.
C16_DiskSeriesCarriesForward ==
  (hist_call.n >= 1 /\ max_points > 0 /\ hist_call.disk_override_percent = <<>>) =>
    LET pushed_disk == pushed.disk_usage[Len(pushed.disk_usage)]
        found == hist_call.found.disk_usage
    IN pushed_disk = (IF found = <<>> THEN <<0, 1>> ELSE found[Len(found)])

\* the optional fields of a GPU record that fusion may supplement
SupplementedFields ==
  {"temperature_c", "core_clock_mhz", "utilization_percent", "power_w", "memory_used_mib",
   "memory_total_mib", "memory_utilization_percent", "in_use"}

\* C17: in the fused record of every tool-reported GPU the name and the source are the
\* tool's, every supplemented field the tool supplied keeps the tool's value, and a field
\* the tool left absent holds the value of the paired sysfs entry when that entry has one;
\* the fused record is in the returned list.
C17_FusionOnlyFillsGaps ==
  (fusion.pc = "returned" /\ fusion.tool # <<>>) =>
    /\ Len(fusion.fused) = Len(fusion.tool)
    /\ \A t \in 1..Len(fusion.tool) :
         LET base == fusion.tool[t]
             fused == fusion.fused[t]
             idx == fusion.extra[t]
         IN /\ fused.name = base.name
            /\ fused.source = base.source
            /\ \A f \in SupplementedFields : base[f] # <<>> => fused[f] = base[f]
            /\ idx # 0 =>
                 \A f \in SupplementedFields :
                   (base[f] = <<>> /\ fusion.sysfs[idx][f] # <<>>) => fused[f] = fusion.sysfs[idx][f]
            /\ \E k \in 1..Len(fusion.gpus) : fusion.gpus[k] = fused

\* a tool entry with a temperature and no clock was paired with a sysfs entry that has both,
\* with another temperature
C17_Witness ==
  /\ fusion.pc = "returned"
  /\ \E t \in 1..Len(fusion.tool) :
       /\ fusion.extra[t] # 0
       /\ fusion.tool[t].temperature_c = <<(<<55, 1>>)>>
       /\ fusion.sysfs[fusion.extra[t]].temperature_c = <<(<<45, 1>>)>>
       /\ fusion.tool[t].core_clock_mhz = <<>>
       /\ fusion.fused[t].core_clock_mhz = <<(<<500, 1>>)>>
       /\ fusion.fused[t].temperature_c = <<(<<55, 1>>)>>

\* the sysfs entries the tool entries before the t-th one consumed
ConsumedBefore(t) == {fusion.extra[u] : u \in 1..(t - 1)} \ {0}

\* the least element of a non-empty set of positions
Least(S) == CHOOSE i \in S : \A j \in S : i <= j

\* C18: the t-th tool entry is paired with the first unconsumed sysfs entry whose name or
\* source mentions "nvidia" while one exists, else with the first unconsumed sysfs entry of
\* any kind, else with none.
C18_NvidiaEntriesFirst ==
  (fusion.pc = "returned" /\ fusion.tool # <<>>) =>
    /\ Len(fusion.extra) = Len(fusion.tool)
    /\ \A t \in 1..Len(fusion.tool) :
         LET free == (1..Len(fusion.sysfs)) \ ConsumedBefore(t)
             freeNvidia == {i \in free : gpuLooksNvidia(fusion.sysfs[i])}
         IN fusion.extra[t] = (IF freeNvidia # {} THEN Least(freeNvidia)
                               ELSE IF free # {} THEN Least(free)
                               ELSE 0)

\* two tool entries and two sysfs entries, the NVIDIA card second in the list: the first
\* tool entry took the second sysfs entry and the second tool entry the first
C18_Witness ==
  /\ fusion.pc = "returned"
  /\ Len(fusion.tool) = 2
  /\ Len(fusion.sysfs) = 2
  /\ ~gpuLooksNvidia(fusion.sysfs[1])
  /\ gpuLooksNvidia(fusion.sysfs[2])
  /\ fusion.extra = <<2, 1>>

\* positions, from 0, of the GPUs of the list with telemetry, that look like Intel, in use
PickWithTelemetry == {i \in 0..(Len(pick.gpus) - 1) : gpuHasTelemetry(pick.gpus[i + 1])}
PickIntel == {i \in 0..(Len(pick.gpus) - 1) : gpuLooksIntel(pick.gpus[i + 1])}
PickInUse == {i \in 0..(Len(pick.gpus) - 1) : pick.gpus[i + 1].in_use = <<TRUE>>}

\* C19: on a non-empty list pickDisplayGpuIndex returns a valid index: when the first GPU
\* looks like a Radeon card without telemetry, the first Intel GPU with telemetry, else the
\* first GPU with telemetry, else the first Intel GPU, else 0; otherwise the first GPU with
\* telemetry, else 0.  pickInUseGpuIndex returns the first GPU whose in-use flag is true,
\* else the display index, and nothing for an empty list.
C19_DisplayAndInUseIndex ==
  pick.pc = "returned" =>
    /\ pick.gpus # <<>> =>
         LET expected ==
               IF gpuLooksRadeon(pick.gpus[1]) /\ ~gpuHasTelemetry(pick.gpus[1])
               THEN IF PickIntel \cap PickWithTelemetry # {} THEN Least(PickIntel \cap PickWithTelemetry)
                    ELSE IF PickWithTelemetry # {} THEN Least(PickWithTelemetry)
                    ELSE IF PickIntel # {} THEN Least(PickIntel)
                    ELSE 0
               ELSE IF PickWithTelemetry # {} THEN Least(PickWithTelemetry)
               ELSE 0
         IN /\ pick.display \in 0..(Len(pick.gpus) - 1)
            /\ pick.display = expected
            /\ pick.in_use = (IF PickInUse # {} THEN <<Least(PickInUse)>> ELSE <<expected>>)
    /\ pick.gpus = <<>> => pick.in_use = <<>>

\* a Radeon card without telemetry first, a non-Intel GPU with telemetry second, an Intel
\* GPU with telemetry third: the third is displayed
C19_Witness ==
  /\ pick.pc = "returned"
  /\ Len(pick.gpus) = 3
  /\ gpuLooksRadeon(pick.gpus[1]) /\ ~gpuHasTelemetry(pick.gpus[1])
  /\ gpuHasTelemetry(pick.gpus[2]) /\ ~gpuLooksIntel(pick.gpus[2])
  /\ gpuHasTelemetry(pick.gpus[3]) /\ gpuLooksIntel(pick.gpus[3])
  /\ pick.display = 2

\* the window with the given title among those created for the frame
FrameWindows(title) == {k \in 1..Len(frame.windows) : frame.windows[k][1].title = title}

\* C20: a frame rendered with at least 18 rows and 80 columns has content_h = rows - 5 and
\* gap = 1; in each column top height + gap + bottom height = stack_h <= content_h with
\* both heights at least 4; the history panel is created iff content_h - stack_h >= 7 and
\* then stack_h + gap + history_h = content_h; no window reaches below the content rows.
C20_LayoutFitsContent ==
  (frame.kind # "none" /\ frame.rows >= 18 /\ frame.cols >= 80) =>
    /\ frame.kind = "panels"
    /\ LET at == frame.layout
       IN /\ at.content_h = frame.rows - 5
          /\ at.gap = 1
          /\ at.cpu_h + at.gap + at.ram_h = at.stack_h
          /\ at.gpu_h + at.gap + at.disk_h = at.stack_h
          /\ at.stack_h <= at.content_h
          /\ at.cpu_h >= 4 /\ at.ram_h >= 4 /\ at.gpu_h >= 4 /\ at.disk_h >= 4
          /\ (FrameWindows("Activity") # {}) <=> (at.content_h - at.stack_h >= 7)
          /\ \A k \in FrameWindows("Activity") :
               /\ frame.windows[k][1].rect.h = at.history_h
               /\ at.stack_h + at.gap + at.history_h = at.content_h
          /\ \A title \in {"CPU", "RAM", "GPU", "Disk"} : Cardinality(FrameWindows(title)) = 1
          /\ \A k \in FrameWindows("CPU") : frame.windows[k][1].rect.h = at.cpu_h
          /\ \A k \in FrameWindows("RAM") : frame.windows[k][1].rect.h = at.ram_h
          /\ \A k \in FrameWindows("GPU") : frame.windows[k][1].rect.h = at.gpu_h
          /\ \A k \in FrameWindows("Disk") : frame.windows[k][1].rect.h = at.disk_h
          /\ \A k \in 1..Len(frame.windows) :
               LET r == frame.windows[k][1].rect
               IN r.y >= at.top /\ r.y + r.h <= at.top + at.content_h

\* a frame whose preferred stack did not fit: 18 rows, the stack cut to the 13 content rows
\* and no history panel
C20_Witness ==
  /\ frame.kind = "panels"
  /\ frame.rows = 18
  /\ frame.layout.stack_h = 13
  /\ frame.layout.content_h = 13
  /\ estimateCpuRows(snapshot) + estimateRamRows(snapshot) + 5 > 13
  /\ FrameWindows("Activity") = {}

\* a line between two cells of the canvas has been rasterized
LineDrawnInside ==
  /\ canvas.op = "line"
  /\ canvas.pc = "drawn"
  /\ isInsideCanvas(canvas.canvas, canvas.x0, canvas.y0)
  /\ isInsideCanvas(canvas.canvas, canvas.x1, canvas.y1)

\* the iterations of the loop for the line that was drawn
DrawnSteps ==
  LineSteps(canvas.x0, canvas.y0, Abs(canvas.x1 - canvas.x0) - Abs(canvas.y1 - canvas.y0), canvas.x1, canvas.y1,
            Abs(canvas.x1 - canvas.x0), Abs(canvas.y1 - canvas.y0),
            IF canvas.x0 < canvas.x1 THEN 1 ELSE -1, IF canvas.y0 < canvas.y1 THEN 1 ELSE -1)

\* the cells the line was stepped through, the starting cell included, and its elbow cells
SteppedCells ==
  {<<canvas.x0, canvas.y0>>} \cup {<<DrawnSteps[k].x, DrawnSteps[k].y>> : k \in 1..Len(DrawnSteps)}
ElbowCells ==
  {<<DrawnSteps[k].elbow_x, DrawnSteps[k].elbow_y>> : k \in {j \in 1..Len(DrawnSteps) : DrawnSteps[j].diagonal}}

\* C21 as stated: both end points, every cell stepped to and every elbow cell of a
\* diagonal step have the point bit.
C21_Original ==
  LineDrawnInside =>
    \A c \in SteppedCells \cup ElbowCells : MaskHas(CellAt(canvas.canvas, c[1], c[2]), 16)

\* C21: after rasterizeBrailleLine between two cells of a fresh canvas both end points and
\* every cell stepped to have the point bit; the elbow cell of a diagonal step lies in the
\* canvas, is joined to the cell before it by a horizontal bit and to the cell after it by
\* a vertical bit, and has no point bit; no other cell is marked.
C21_PointBitOnSteppedCells ==
  LineDrawnInside =>
    /\ <<canvas.x1, canvas.y1>> \in SteppedCells
    /\ \A c \in SteppedCells : MaskHas(CellAt(canvas.canvas, c[1], c[2]), 16)
    /\ \A c \in ElbowCells :
         /\ isInsideCanvas(canvas.canvas, c[1], c[2])
         /\ LET mask == CellAt(canvas.canvas, c[1], c[2])
            IN /\ ~MaskHas(mask, 16)
               /\ MaskHas(mask, 4) \/ MaskHas(mask, 8)
               /\ MaskHas(mask, 1) \/ MaskHas(mask, 2)
    /\ \A x \in 0..(canvas.canvas.width - 1), y \in 0..(canvas.canvas.height - 1) :
         CellAt(canvas.canvas, x, y) # 0 => <<x, y>> \in SteppedCells \cup ElbowCells

\* the diagonal from the top left cell to the cell below and right of it: the elbow cell
\* right of the start holds left and down and no point
C21_Witness ==
  /\ LineDrawnInside
  /\ canvas.x0 = 0 /\ canvas.y0 = 0 /\ canvas.x1 = 1 /\ canvas.y1 = 1
  /\ ElbowCells = {<<1, 0>>}
  /\ CellAt(canvas.canvas, 1, 0) = 6
  /\ CellAt(canvas.canvas, 0, 0) = 24
  /\ CellAt(canvas.canvas, 1, 1) = 17

\* the series of the claim's order, first drawn first, and the colour pair of each series
\* in the legend of the panel
ClaimedOrder == <<"disk_usage", "ram_usage", "cpu_temp", "gpu_usage", "gpu_vram_usage", "cpu_usage">>
LegendPair ==
  [s \in Series |->
     CASE s = "cpu_usage" -> 4 [] s = "cpu_temp" -> 3 [] s = "ram_usage" -> 2
       [] s = "gpu_usage" -> 1 [] s = "gpu_vram_usage" -> 5 [] s = "disk_usage" -> 6]

\* the positions in the claimed order of the series whose canvas marks cell i
MarkingAt(i) == {k \in 1..6 : canvas.layers[ClaimedOrder[k]].cells[i] # 0}

\* C22: each layer is the plot of its series, and every cell of the graph shows the glyph
\* and the colour of the last series in the order disk, ram, cpu-temp, gpu, vram, cpu whose
\* canvas mask at the cell is non-zero; a cell no series marks keeps what the grid held.
C22_LastMarkingSeriesShown ==
  (canvas.pc = "drawn" /\ canvas.op = "graph") =>
    /\ \A s \in Series :
         canvas.layers[s] = plotBrailleSeries(createBrailleCanvas(canvas.canvas.width, canvas.canvas.height),
                                              canvas.history[s], Num(0), Num(100))
    /\ \A i \in 1..Len(canvas.area) :
         IF MarkingAt(i) = {}
         THEN canvas.area[i] = GridArea(canvas.canvas.width, canvas.canvas.height)[i]
         ELSE LET top == ClaimedOrder[CHOOSE k \in MarkingAt(i) : \A j \in MarkingAt(i) : j <= k]
              IN /\ canvas.area[i].glyph = glyphForMask(canvas.layers[top].cells[i])
                 /\ canvas.area[i].glyph # GLYPH_space
                 /\ canvas.area[i].pair = (IF canvas.has_colors THEN LegendPair[top] ELSE 0)

\* the disk series rises across the canvas and the CPU series runs along the bottom: where
\* both mark the bottom left cell the CPU layer shows, and the top right cell, which the
\* CPU layer leaves empty, still shows the disk layer
C22_Witness ==
  /\ canvas.pc = "drawn" /\ canvas.op = "graph"
  /\ canvas.has_colors
  /\ LET w == canvas.canvas.width
         h == canvas.canvas.height
         bottom_left == (h - 1) * w + 1
         top_right == w
     IN /\ canvas.layers["disk_usage"].cells[bottom_left] # 0
        /\ canvas.layers["cpu_usage"].cells[bottom_left] # 0
        /\ canvas.area[bottom_left].pair = 4
        /\ canvas.layers["disk_usage"].cells[top_right] # 0
        /\ canvas.layers["cpu_usage"].cells[top_right] = 0
        /\ \A s \in Series \ {"disk_usage", "cpu_usage"} : canvas.layers[s].cells[top_right] = 0
        /\ canvas.area[top_right].pair = 6

\* the valid readings of the thermal zones of the machine whose type is, or is not, one of
\* the CPU types
ValidZoneReadings(preferred) ==
  {ValueOf(normalizeTemperatureC(ValueOf(thermal.env.zones[k].raw))) :
     k \in {j \in 1..Len(thermal.env.zones) :
              /\ HasValue(thermal.env.zones[j].raw)
              /\ HasValue(normalizeTemperatureC(ValueOf(thermal.env.zones[j].raw)))
              /\ ZoneTypePreferred(toLower(thermal.env.zones[j].type)) = preferred}}

\* the valid readings of the hwmon sensors with, or without, a CPU label, on chips with any
\* name or only on chips with a CPU name
ValidHwmonReadings(cpu_label, cpu_chips_only) ==
  UNION {{ValueOf(normalizeTemperatureC(ValueOf(thermal.env.hwmon[c].sensors[k].raw))) :
            k \in {j \in 1..Len(thermal.env.hwmon[c].sensors) :
                     /\ HasValue(thermal.env.hwmon[c].sensors[j].raw)
                     /\ HasValue(normalizeTemperatureC(ValueOf(thermal.env.hwmon[c].sensors[j].raw)))
                     /\ hwmonLabelLooksCpuTemp(toLower(thermal.env.hwmon[c].sensors[j].label)) = cpu_label}} :
         c \in {d \in 1..Len(thermal.env.hwmon) :
                  cpu_chips_only => hwmonNameLooksCpuSensor(toLower(thermal.env.hwmon[d].name))}}

\* the greatest of a non-empty set of readings
GreatestOf(S) == CHOOSE v \in S : \A u \in S : RatLeq(u, v)

\* the result for the thermal zones alone
ZonesResultIs(result) ==
  IF ValidZoneReadings(TRUE) # {} THEN result = <<GreatestOf(ValidZoneReadings(TRUE))>>
  ELSE IF ValidZoneReadings(FALSE) # {} THEN result = <<GreatestOf(ValidZoneReadings(FALSE))>>
  ELSE result = <<>>

DataLines(output) ==
  {n \in 1..Len(output) : trim(output[n]) # <<>> /\ ~IsChipHeader(output[n], trim(output[n]))}

LowerLine(output, n) == toLower(trim(output[n]))

\* the chip header in effect at line n
ChipAt(output, n) == SensorsLoop(output, n - 1).chip_name

\* the number a line gives in front of its unit "rpm"
RpmReading(lower_line) ==
  LET units == {k \in 1..Len(lower_line) : k + 2 <= Len(lower_line) /\ SubSeq(lower_line, k, k + 2) = STR_rpm}
      unit == Least(units)
      starts == {i \in 1..Len(lower_line) :
                   /\ IsDigit(lower_line[i])
                   /\ i = 1 \/ ~(IsDigit(lower_line[i - 1]) \/ lower_line[i - 1] = 46)
                   /\ SkipSpaces(lower_line, NumberAt(lower_line, i).last + 1) = unit}
  IN IF units = {} \/ starts = {} THEN None ELSE Some(NumberAt(lower_line, Least(starts)).value)

\* the lines with a positive RPM value
FanLines(output) ==
  {n \in DataLines(output) :
     /\ HasValue(RpmReading(LowerLine(output, n)))
     /\ RatLess(Num(0), ValueOf(RpmReading(LowerLine(output, n))))}

\* the lines with a wattage
PowerLines(output) == {n \in DataLines(output) : HasValue(extractWattsFromText(LowerLine(output, n)))}

\* the lines the RPM branch of the loop takes: the first number of the line is positive
TakenFanLines(output) ==
  {n \in DataLines(output) :
     /\ lineHasToken(LowerLine(output, n), STR_rpm)
     /\ HasValue(extractFirstNumber(LowerLine(output, n)))
     /\ RatLess(Num(0), ValueOf(extractFirstNumber(LowerLine(output, n))))}

CpuFanScore(output, n) == FanScores(LowerLine(output, n), ChipAt(output, n)).cpu
GpuFanScore(output, n) == FanScores(LowerLine(output, n), ChipAt(output, n)).gpu
CpuPowerScore(output, n) == PowerScores(LowerLine(output, n), ChipAt(output, n)).cpu
GpuPowerScore(output, n) == PowerScores(LowerLine(output, n), ChipAt(output, n)).gpu

\* the first of the lines with the highest score
BestLine(lines, score(_)) ==
  CHOOSE n \in lines : \A m \in lines : score(m) < score(n) \/ (score(m) = score(n) /\ n <= m)

SensorsParsed == sensors_call.pc = "parsed"

\* C24 (as stated): cpu_fan_rpm is the RPM value of the first line with the highest
\* cpu score among the lines with a positive RPM value, gpu_fan_rpm the RPM value of
\* the first line with the highest gpu score, and likewise cpu_power_w and gpu_power_w
\* over the lines with a wattage.
C24_Original ==
  SensorsParsed =>
    LET output == sensors_call.output
        result == sensors_call.result
        fans == FanLines(output)
        powers == PowerLines(output)
        cpu_fan == BestLine(fans, LAMBDA n : CpuFanScore(output, n))
        gpu_fan == BestLine(fans, LAMBDA n : GpuFanScore(output, n))
        cpu_power == BestLine(powers, LAMBDA n : CpuPowerScore(output, n))
        gpu_power == BestLine(powers, LAMBDA n : GpuPowerScore(output, n))
    IN /\ fans # {} =>
            /\ CpuFanScore(output, cpu_fan) >= 0 => result.cpu_fan_rpm = RpmReading(LowerLine(output, cpu_fan))
            /\ result.gpu_fan_rpm = RpmReading(LowerLine(output, gpu_fan))
       /\ powers # {} =>
            /\ result.cpu_power_w = extractWattsFromText(LowerLine(output, cpu_power))
            /\ result.gpu_power_w = extractWattsFromText(LowerLine(output, gpu_power))

\* What the loop does select: among the lines whose first number is positive, the first
\* one with the highest score, and of that line its first number.
FirstNumberOfBestLine ==
  SensorsParsed =>
    LET output == sensors_call.output
        result == sensors_call.result
        fans == TakenFanLines(output)
        powers == PowerLines(output)
        cpu_fan == BestLine(fans, LAMBDA n : CpuFanScore(output, n))
        gpu_fan == BestLine(fans, LAMBDA n : GpuFanScore(output, n))
        cpu_power == BestLine(powers, LAMBDA n : CpuPowerScore(output, n))
        gpu_power == BestLine(powers, LAMBDA n : GpuPowerScore(output, n))
    IN /\ fans # {} =>
            /\ CpuFanScore(output, cpu_fan) >= 0 => result.cpu_fan_rpm = extractFirstNumber(LowerLine(output, cpu_fan))
            /\ result.gpu_fan_rpm = extractFirstNumber(LowerLine(output, gpu_fan))
       /\ powers # {} =>
            /\ result.cpu_power_w = extractWattsFromText(LowerLine(output, cpu_power))
            /\ result.gpu_power_w = extractWattsFromText(LowerLine(output, gpu_power))

\* the label of a fan line carries a number: the reported speed is the number of the label
LabelNumberReported ==
  /\ SensorsParsed
  /\ sensors_call.output = <<LINE_fan1>>
  /\ sensors_call.result.cpu_fan_rpm = Some(Num(1))
  /\ RpmReading(LowerLine(sensors_call.output, 1)) = Some(Num(1200))

\* the time since the cache found by the last call was filled, in microseconds
FoundAge == sensors_call.now - sensors_call.found.last_read

SensorsCalledTimed == sensors_call.pc = "timed" /\ sensors_call.calls >= 1

\* C25: a call made less than 900 ms after the start of the call that last ran the
\* sensors tool returns the cached result and does not run the tool; the first call
\* made 900 ms or more after it runs the tool again and replaces the cache; two runs
\* of the tool are never less than 900 ms apart.
C25_CacheWindow ==
  SensorsCalledTimed =>
    /\ sensors_call.found.initialized /\ FoundAge < CacheWindowMs * 1000 =>
         /\ ~sensors_call.invoked
         /\ sensors_call.result = sensors_call.found.data
         /\ sensors_call.cache = sensors_call.found
    /\ sensors_call.found.initialized /\ FoundAge >= CacheWindowMs * 1000 =>
         /\ sensors_call.invoked
         /\ sensors_call.result = SensorsLoop(sensors_call.output, Len(sensors_call.output)).result
         /\ sensors_call.cache = [last_read |-> sensors_call.now, data |-> sensors_call.result, initialized |-> TRUE]
    /\ ~sensors_call.found.initialized => sensors_call.invoked
    /\ sensors_call.runs >= 2 => sensors_call.last_run - sensors_call.prev_run >= CacheWindowMs * 1000

\* the tool ran twice exactly 900 ms apart with different results, and a call just
\* below 900 ms after the second run is answered from the cache
C25_Witness ==
  /\ SensorsCalledTimed
  /\ sensors_call.runs = 2
  /\ sensors_call.last_run - sensors_call.prev_run = CacheWindowMs * 1000
  /\ ~sensors_call.invoked
  /\ FoundAge = CacheWindowMs * 1000 - 1
  /\ sensors_call.result.cpu_fan_rpm = Some(Num(1500))
  /\ sensors_call.result = sensors_call.found.data

\* C30 (as stated): cpu_fan_rpm is absent exactly when no line with a positive RPM
\* value has a cpu score of at least 0; gpu_fan_rpm is present whenever a line with
\* a positive RPM value exists, cpu_power_w and gpu_power_w whenever a line with a
\* wattage exists.
C30_Original ==
  SensorsParsed =>
    LET output == sensors_call.output
        result == sensors_call.result
    IN /\ ~HasValue(result.cpu_fan_rpm) <=> ~(\E n \in FanLines(output) : CpuFanScore(output, n) >= 0)
       /\ FanLines(output) # {} => HasValue(result.gpu_fan_rpm)
       /\ HasValue(result.gpu_fan_rpm) => FanLines(output) # {}
       /\ PowerLines(output) # {} <=> HasValue(result.cpu_power_w)
       /\ PowerLines(output) # {} <=> HasValue(result.gpu_power_w)

\* The thresholds over the lines the loop takes, those whose first number is positive.
ThresholdsOverTakenLines ==
  SensorsParsed =>
    LET output == sensors_call.output
        result == sensors_call.result
    IN /\ ~HasValue(result.cpu_fan_rpm) <=> ~(\E n \in TakenFanLines(output) : CpuFanScore(output, n) >= 0)
       /\ TakenFanLines(output) # {} <=> HasValue(result.gpu_fan_rpm)
       /\ PowerLines(output) # {} <=> HasValue(result.cpu_power_w)
       /\ PowerLines(output) # {} <=> HasValue(result.gpu_power_w)

\* a pump line is the only fan line: it is passed over for the cpu and taken for the gpu
PumpPassedOver ==
  /\ SensorsParsed
  /\ sensors_call.output = <<LINE_nct6775, LINE_pump>>
  /\ sensors_call.result.cpu_fan_rpm = None
  /\ sensors_call.result.gpu_fan_rpm = Some(Num(2000))

\* a fan that stands still is reported as turning, at the number of its label
StoppedFanReported ==
  /\ SensorsParsed
  /\ sensors_call.output = <<LINE_stopped>>
  /\ FanLines(sensors_call.output) = {}
  /\ sensors_call.result.cpu_fan_rpm = Some(Num(2))

(***************************************************************************)
(* Properties of the quit key                                              *)
(***************************************************************************)
QuitKeys == {"q", "Q"}

\* a poll cycle or a render is running
CycleRuns == pc \in {"start", "poll", "resize"}

\* a quit key waits in the input queue
QuitWaits == \E i \in 1..Len(typed.queue) : typed.queue[i].key \in QuitKeys

\* no poll, no history append and no render happens in this step
NothingPolledOrDrawn == UNCHANGED <<polls, snapshot, history, pushed, hist_call, frame>>

\* the steps of the loop around a quit key
QuitStep ==
  /\ (pc = "getch" /\ typed'.read.key \in QuitKeys) => (pc' = "quit" /\ NothingPolledOrDrawn)
  /\ pc \in {"quit", "done"} => (pc' \in {"quit", "done"} /\ NothingPolledOrDrawn)
  /\ (CycleRuns /\ QuitWaits) =>
       /\ pc' \in {pc, "getch"}
       /\ pc' = "getch" => (typed' = typed /\ frame'.before = frame.kind /\ (pc # "resize" => polls' = polls + 1))
  /\ (pc # "quit" /\ pc' = "quit") => (pc = "getch" /\ typed'.read.key \in QuitKeys)

\* C26: when the key read is 'q' or 'Q' the loop ends before any further poll, history
\* append or render; a quit key typed while a poll cycle or a render runs is not acted
\* on before that cycle has completed and the key is read; the loop is left only on a
\* quit key read; and once a quit key is read the program eventually terminates.
C26_CooperativeQuit == [][QuitStep]_vars /\ ((pc = "quit") ~> (pc = "done"))

\* the program has ended on a quit key that was typed while the second poll cycle ran
C26_Witness ==
  /\ pc = "done"
  /\ typed.read = [key |-> "q", at |-> "poll"]
  /\ polls = 2
  /\ frame.kind # "none"

(***************************************************************************)
(* Properties of the size of the fused list                                *)
(***************************************************************************)
\* the sysfs entries consumed as supplements
ConsumedSysfs == {i \in 1..Len(fusion.sysfs) : fusion.sysfs_used[i]}

\* C27: with n >= 1 tool-reported GPUs and s sysfs-reported GPUs the returned list has
\* exactly max(n, s) records: min(n, s) sysfs entries are consumed as supplements and
\* the other s - min(n, s) are appended as records of their own.
C27_OutputSize ==
  (fusion.pc = "returned" /\ Len(fusion.tool) >= 1) =>
    LET n == Len(fusion.tool)
        s == Len(fusion.sysfs)
    IN /\ Len(fusion.gpus) = Max(n, s)
       /\ Cardinality(ConsumedSysfs) = Min(n, s)
       /\ Cardinality({t \in 1..n : fusion.extra[t] # 0}) = Min(n, s)
       /\ Cardinality({i \in 1..s : AppendedAt(i) # {}}) = s - Min(n, s)
       /\ Len(fusion.gpus) - n = s - Min(n, s)

\* two tool entries and one sysfs entry, which is not an NVIDIA one: the first tool
\* entry consumed it, the second found none left
C27_Witness ==
  /\ fusion.pc = "returned"
  /\ Len(fusion.tool) = 2
  /\ Len(fusion.sysfs) = 1
  /\ ~gpuLooksNvidia(fusion.sysfs[1])
  /\ fusion.extra = <<1, 0>>
  /\ Len(fusion.gpus) = 2

(***************************************************************************)
(* Properties of the telemetry order and the displayed GPU                 *)
(***************************************************************************)
PickedFromCollected == fusion.pc = "returned" /\ pick.pc = "returned" /\ pick.gpus = fusion.gpus

\* the Radeon special case applies to the list
RadeonCase(gpus) == gpus # <<>> /\ gpuLooksRadeon(gpus[1]) /\ ~gpuHasTelemetry(gpus[1])

\* C28: telemetryScore is positive exactly when gpuHasTelemetry holds; in the list
\* collectGpus returns all GPUs with telemetry precede those without;
\* pickDisplayGpuIndex returns 0 on it whenever any GPU has telemetry; and when the
\* Radeon special case applies, a selection other than the front is an Intel GPU
\* without telemetry, the first one.
C28_TelemetryFirst ==
  /\ fusion.pc = "returned" =>
       /\ \A k \in 1..Len(fusion.gpus) : telemetryScore(fusion.gpus[k]) > 0 <=> gpuHasTelemetry(fusion.gpus[k])
       /\ \A j, k \in 1..Len(fusion.gpus) :
            (j < k /\ gpuHasTelemetry(fusion.gpus[k])) => gpuHasTelemetry(fusion.gpus[j])
  /\ PickedFromCollected =>
       /\ anyGpuHasTelemetry(pick.gpus) => pick.display = 0
       /\ pick.display # 0 =>
            /\ RadeonCase(pick.gpus)
            /\ gpuLooksIntel(pick.gpus[pick.display + 1])
            /\ ~gpuHasTelemetry(pick.gpus[pick.display + 1])
            /\ \A i \in 1..pick.display : ~gpuLooksIntel(pick.gpus[i])
       /\ RadeonCase(pick.gpus) => ~anyGpuHasTelemetry(pick.gpus)

\* a Radeon card and an Intel card, both without a reading: the Intel card is displayed
C28_Witness ==
  /\ PickedFromCollected
  /\ Len(pick.gpus) = 2
  /\ RadeonCase(pick.gpus)
  /\ pick.display = 1
  /\ gpuLooksIntel(pick.gpus[2])

\* a list with a GPU with telemetry in front of one without: the front is displayed
TelemetryInFront ==
  /\ PickedFromCollected
  /\ Len(pick.gpus) = 2
  /\ gpuHasTelemetry(pick.gpus[1])
  /\ ~gpuHasTelemetry(pick.gpus[2])
  /\ pick.display = 0

(***************************************************************************)
(* Properties of the panel windows of a frame                              *)
(***************************************************************************)
\* the windows newwin made in the last renderSnapshot that no delwin was called on
LiveWindows == {k \in 1..Len(frame.windows) : \A d \in 1..Len(frame.deleted) : frame.deleted[d] # frame.windows[k]}

\* C29 (as stated): every panel window created in renderSnapshot is deleted before it
\* returns, so no window is live between frames.
C29_EveryWindowDeleted == frame.kind # "none" => LiveWindows = {}

\* a frame with panels leaves exactly its NET window undeleted
NetWindowLeftLive ==
  /\ frame.kind # "none"
  /\ frame.windows # <<>>
  /\ LiveWindows # {}
  /\ LiveWindows = FrameWindows("NET")

====
